---- MODULE Spec2Model ----
(***************************************************************************)
(* FeedMiner: the Response Normalizer (src/src/ai/response_normalizer.py), *)
(* the multi-type sampling of the Instagram parser and its Lambda handler  *)
(* (src/src/agents/instagram_parser.py), the provider comparison           *)
(* (src/src/api/strands_model_switching.py) and the provider manager       *)
(* (src/src/ai/providers.py, src/src/agents/instagram_parser_v2.py).       *)
(*                                                                         *)
(* Texts.  A text is the list of its lines and a line is the list of its   *)
(* tokens (the words between blanks).  The string the code sees is the     *)
(* tokens joined by one blank and the lines joined by "\n".  Every string  *)
(* test of the code (substring, whole word, regular expression, isupper)   *)
(* is decided per token by TokenTable, which was computed from the real    *)
(* strings with the code's own expressions.                                *)
(***************************************************************************)
EXTENDS Integers, Sequences, FiniteSets, TLC

VARIABLES
    n_pc,            \* normalize_response: "call" before, "done" after the call
    raw_response,    \* normalize_response: its argument
    n_outcome,       \* normalize_response: what the call gave (a result or a raised exception)
    n_content_text,  \* normalize_response: what _extract_content_text gave
    try_outcome,     \* normalize_response: what its try block gave
    t_pc,            \* threshold functions: "call" / "done"
    percentage,      \* threshold functions: the argument
    evidence,        \* _determine_evidence_level(percentage)
    goal_potential,  \* _determine_goal_potential(percentage)
    p_pc,            \* parse_multi_type_instagram_export: "call", "ai_call" (awaiting
                     \* structured_output_async), "done" or "raised"
    data_types,      \* export_info['dataTypes']
    raw_data,        \* the export: data type name -> section
    debug_mode,      \* os.environ DEBUG_MODE (default 'true') == 'true'
    total_items,     \* items counted over the listed data types
    sample_size_per_type,
    all_posts,       \* the posts extracted for the prompt
    p_outcome,       \* what the call gave: the result's metadata or a raised exception
    c_pc,            \* handle_strands_compare_providers: "call", "loop" (in the
                     \* for loop over the configurations) or "done"
    providers_config,    \* request_body['providers']
    c_index,         \* the configuration the loop is at
    comparison_results,  \* the dict of outcomes, in insertion order
    c_response,      \* the response of the handler
    g_pc,            \* EnhancedInstagramParserAgent.parse_instagram_export: "call",
                     \* "primary" / "fallback" (AIProviderManager.generate awaits
                     \* that provider), "generated" or "done"
    g_providers,     \* AIProviderManager.providers: the names initialised
    fallback_provider,   \* AIProviderManager.fallback_provider
    g_config,        \* provider_config: the requested provider and model
    g_calls,         \* the provider calls made, in order
    ai_response,     \* what AIProviderManager.generate returned
    analysis,        \* what parse_instagram_export returned
    h_pc,            \* handler (orchestrator invocation): "call", "analysis",
                     \* "save", "returned" or "raised"
    ai_error,        \* the message of the exception structured_output_async raised
    content_status,  \* the status attribute of the content record
    save_calls,      \* the number of calls of save_analysis_result
    h_outcome,       \* what the handler gave: a response or a raised exception
    b_pc,            \* _build_multi_type_analysis_prompt: "call" / "done"
    b_posts,         \* _build_multi_type_analysis_prompt: its posts
    b_data_types,    \* _build_multi_type_analysis_prompt: its data_types
    b_export_info,   \* _build_multi_type_analysis_prompt: its export_info
    b_prompt,        \* _build_multi_type_analysis_prompt: the prompt returned
    r_now,           \* reprocess: int(time.time())
    analysis_table,  \* reprocess: the items of ANALYSIS_TABLE
    jobs_table,      \* reprocess: the items of JOBS_TABLE, in the order of their creation
    r_calls,         \* reprocess: the number of requests handled
    r_request,       \* reprocess: the last request
    r_response,      \* reprocess: the response to the last request
    a_pc,            \* content_analysis.handler: where it is
    content_data,    \* content_analysis.handler: the object read from S3
    a_status,        \* content_analysis.handler: the status of the content record
    a_outcome        \* content_analysis.handler: what it gave

n_vars == <<n_pc, raw_response, n_outcome, n_content_text, try_outcome>>
t_vars == <<t_pc, percentage, evidence, goal_potential>>
p_vars == <<p_pc, data_types, raw_data, debug_mode, total_items, sample_size_per_type,
            all_posts, p_outcome>>
c_vars == <<c_pc, providers_config, c_index, comparison_results, c_response>>
g_vars == <<g_pc, g_providers, fallback_provider, g_config, g_calls, ai_response, analysis>>
b_vars == <<b_pc, b_posts, b_data_types, b_export_info, b_prompt>>
r_vars == <<r_now, analysis_table, jobs_table, r_calls, r_request, r_response>>
a_vars == <<a_pc, content_data, a_status, a_outcome>>
o_vars == <<b_vars, r_vars, a_vars>>
h_rest == <<h_pc, content_status, save_calls, h_outcome>>
h_vars == <<ai_error, h_rest>>
vars == <<n_vars, t_vars, p_vars, c_vars, g_vars, h_vars, o_vars>>

\* Bounds of the model.
MaxLines == 3
MaxPct == 120
MaxTypes == 2

Absent == "<absent>"      \* a key the mapping does not have
NoPct == -1               \* Python None for an optional percentage
NoCategory == "<none>"    \* Python None for an optional category

(***************************************************************************)
(* Lexical facts of the tokens.  lower: str.lower(); word: the             *)
(* GOAL_CATEGORIES keys k with re.search(r'\bk\b'); sub: the searched      *)
(* terms that are substrings; term_match: the TERM_PATTERNS regexes that   *)
(* match; term_literal: the TERM_PATTERNS sources that are substrings;     *)
(* pct: (\d+)% ; paren_pct: \((\d+)%\) ; bullet: the bullet markers the    *)
(* token ends with.                                                        *)
(***************************************************************************)
TokenTable ==
  "##" :> [lower |-> "##", word |-> {}, sub |-> {},
      term_match |-> {}, term_literal |-> {}, pct |-> -1, paren_pct |-> -1,
      cased |-> FALSE, upper |-> FALSE, nwords |-> 1, bullet |-> {}] @@
  "**" :> [lower |-> "**", word |-> {}, sub |-> {},
      term_match |-> {}, term_literal |-> {}, pct |-> -1, paren_pct |-> -1,
      cased |-> FALSE, upper |-> FALSE, nwords |-> 1, bullet |-> {"*"}] @@
  "1." :> [lower |-> "1.", word |-> {}, sub |-> {},
      term_match |-> {}, term_literal |-> {}, pct |-> -1, paren_pct |-> -1,
      cased |-> FALSE, upper |-> FALSE, nwords |-> 1, bullet |-> {"N."}] @@
  "-" :> [lower |-> "-", word |-> {}, sub |-> {},
      term_match |-> {}, term_literal |-> {}, pct |-> -1, paren_pct |-> -1,
      cased |-> FALSE, upper |-> FALSE, nwords |-> 1, bullet |-> {"-"}] @@
  "goals" :> [lower |-> "goals", word |-> {}, sub |-> {"goal"},
      term_match |-> {}, term_literal |-> {}, pct |-> -1, paren_pct |-> -1,
      cased |-> TRUE, upper |-> FALSE, nwords |-> 1, bullet |-> {}] @@
  "patterns" :> [lower |-> "patterns", word |-> {}, sub |-> {"pattern"},
      term_match |-> {}, term_literal |-> {}, pct |-> -1, paren_pct |-> -1,
      cased |-> TRUE, upper |-> FALSE, nwords |-> 1, bullet |-> {}] @@
  "habit" :> [lower |-> "habit", word |-> {}, sub |-> {"habit"},
      term_match |-> {}, term_literal |-> {}, pct |-> -1, paren_pct |-> -1,
      cased |-> TRUE, upper |-> FALSE, nwords |-> 1, bullet |-> {}] @@
  "fitness" :> [lower |-> "fitness", word |-> {"fitness"}, sub |-> {"fitness"},
      term_match |-> {}, term_literal |-> {}, pct |-> -1, paren_pct |-> -1,
      cased |-> TRUE, upper |-> FALSE, nwords |-> 1, bullet |-> {}] @@
  "learning" :> [lower |-> "learning", word |-> {"learning"}, sub |-> {"learn", "learning"},
      term_match |-> {}, term_literal |-> {}, pct |-> -1, paren_pct |-> -1,
      cased |-> TRUE, upper |-> FALSE, nwords |-> 1, bullet |-> {}] @@
  "workout" :> [lower |-> "workout", word |-> {}, sub |-> {"workout", "work"},
      term_match |-> {}, term_literal |-> {}, pct |-> -1, paren_pct |-> -1,
      cased |-> TRUE, upper |-> FALSE, nwords |-> 1, bullet |-> {}] @@
  "improve" :> [lower |-> "improve", word |-> {}, sub |-> {"improve"},
      term_match |-> {}, term_literal |-> {}, pct |-> -1, paren_pct |-> -1,
      cased |-> TRUE, upper |-> FALSE, nwords |-> 1, bullet |-> {}] @@
  "one month" :> [lower |-> "one month", word |-> {}, sub |-> {},
      term_match |-> {"one month"}, term_literal |-> {"one month"}, pct |-> -1, paren_pct |-> -1,
      cased |-> TRUE, upper |-> FALSE, nwords |-> 2, bullet |-> {}] @@
  "next month" :> [lower |-> "next month", word |-> {}, sub |-> {},
      term_match |-> {"next month"}, term_literal |-> {"next month"}, pct |-> -1, paren_pct |-> -1,
      cased |-> TRUE, upper |-> FALSE, nwords |-> 2, bullet |-> {}] @@
  "30-day" :> [lower |-> "30-day", word |-> {}, sub |-> {},
      term_match |-> {"30[\\s\\-]?day"}, term_literal |-> {}, pct |-> -1, paren_pct |-> -1,
      cased |-> TRUE, upper |-> FALSE, nwords |-> 1, bullet |-> {}] @@
  "(50%)" :> [lower |-> "(50%)", word |-> {}, sub |-> {},
      term_match |-> {}, term_literal |-> {}, pct |-> 50, paren_pct |-> 50,
      cased |-> FALSE, upper |-> FALSE, nwords |-> 1, bullet |-> {}] @@
  "150%" :> [lower |-> "150%", word |-> {}, sub |-> {},
      term_match |-> {}, term_literal |-> {}, pct |-> 150, paren_pct |-> -1,
      cased |-> FALSE, upper |-> FALSE, nwords |-> 1, bullet |-> {}] @@
  "10%" :> [lower |-> "10%", word |-> {}, sub |-> {},
      term_match |-> {}, term_literal |-> {}, pct |-> 10, paren_pct |-> -1,
      cased |-> FALSE, upper |-> FALSE, nwords |-> 1, bullet |-> {}] @@
  "." :> [lower |-> ".", word |-> {}, sub |-> {},
      term_match |-> {}, term_literal |-> {}, pct |-> -1, paren_pct |-> -1,
      cased |-> FALSE, upper |-> FALSE, nwords |-> 1, bullet |-> {}] @@
  "\n" :> [lower |-> "\n", word |-> {}, sub |-> {},
      term_match |-> {}, term_literal |-> {}, pct |-> -1, paren_pct |-> -1,
      cased |-> FALSE, upper |-> FALSE, nwords |-> 0, bullet |-> {}] @@
  "introduction" :> [lower |-> "introduction", word |-> {}, sub |-> {},
      term_match |-> {}, term_literal |-> {}, pct |-> -1, paren_pct |-> -1,
      cased |-> TRUE, upper |-> FALSE, nwords |-> 1, bullet |-> {}]


LineKinds == {
    <<"##", "goals", "(50%)">>,
    <<"##", "patterns">>,
    <<"**", "habit", "**">>,
    <<"1.", "goals", "(50%)">>,
    <<"fitness", "150%", "30-day">>,
    <<"10%", "learning">>,
    <<"one month", ".", "next month">>,
    <<"-", "improve", "workout">> }

RECURSIVE SeqsUpTo(_, _)
SeqsUpTo(S, n) ==
    IF n = 0 THEN {<<>>}
    ELSE SeqsUpTo(S, n - 1) \cup {Append(s, x) : s \in {t \in SeqsUpTo(S, n - 1) : Len(t) = n - 1},
                                                 x \in S}

Texts == SeqsUpTo(LineKinds, MaxLines)

\* ---------------------------------------------------------------- strings
RECURSIVE Flat(_)
Flat(text) ==
    IF text = <<>> THEN <<>>
    ELSE IF Len(text) = 1 THEN text[1]
    ELSE text[1] \o <<"\n">> \o Flat(Tail(text))

LineHasSub(line, term) == \E i \in 1..Len(line) : term \in TokenTable[line[i]].sub
HasSub(text, term) == \E l \in 1..Len(text) : LineHasSub(text[l], term)
HasAnySub(text, terms) == \E term \in terms : HasSub(text, term)
HasWord(text, key) ==
    \E l \in 1..Len(text) : \E i \in 1..Len(text[l]) : key \in TokenTable[text[l][i]].word
LowerLine(line) == [i \in 1..Len(line) |-> TokenTable[line[i]].lower]

\* ------------------------------------------------------------ thresholds
determine_evidence_level(p) ==
    IF p >= 40 THEN "HIGH" ELSE IF p >= 20 THEN "MEDIUM" ELSE "LOW"

\* The evidence thresholds (40, 20) applied to the goal potential: the
\* symmetric variant that the stated asymmetry excludes.
goal_potential_with_evidence_thresholds(p) ==
    IF p >= 40 THEN "High" ELSE IF p >= 20 THEN "Medium" ELSE "Low"

determine_goal_potential(p) ==
    IF p >= 30 THEN "High" ELSE IF p >= 15 THEN "Medium" ELSE "Low"

\* ------------------------------------------------------- section splitting
\* A dict with insertion order: a sequence of [title, body] with distinct titles.
DictSet(sections, title, body) ==
    IF \E i \in 1..Len(sections) : sections[i].title = title
    THEN [i \in 1..Len(sections) |->
             IF sections[i].title = title THEN [title |-> title, body |-> body]
             ELSE sections[i]]
    ELSE Append(sections, [title |-> title, body |-> body])

\* str.isupper(): at least one cased character and every cased character upper case.
IsUpper(line) ==
    /\ \E i \in 1..Len(line) : TokenTable[line[i]].upper
    /\ \A i \in 1..Len(line) : TokenTable[line[i]].cased => TokenTable[line[i]].upper

RECURSIVE NWords(_)
NWords(line) ==
    IF line = <<>> THEN 0 ELSE TokenTable[Head(line)].nwords + NWords(Tail(line))

RECURSIVE LStrip(_, _)
LStrip(line, marks) ==
    IF line # <<>> /\ Head(line) \in marks THEN LStrip(Tail(line), marks) ELSE line

RECURSIVE RStrip(_, _)
RStrip(line, marks) ==
    IF line # <<>> /\ line[Len(line)] \in marks
    THEN RStrip(SubSeq(line, 1, Len(line) - 1), marks) ELSE line

\* how = "headers": **..**, ## or an upper-case line of at most 5 words;
\* "markdown": a line that starts with #; "numbered": a line that starts with \d+\.
IsHeader(how, line) ==
    CASE how = "headers" ->
            \/ Head(line) = "**" /\ line[Len(line)] = "**"
            \/ Head(line) = "##"
            \/ IsUpper(line) /\ NWords(line) <= 5
      [] how = "markdown" -> Head(line) = "##"
      [] how = "numbered" -> "N." \in TokenTable[Head(line)].bullet

\* The section title: strip('*# '), lstrip('# ') or re.sub(r'^\d+\.\s*', ''), lower-cased.
TitleOf(how, line) ==
    CASE how = "headers" -> LowerLine(RStrip(LStrip(line, {"##", "**"}), {"##", "**"}))
      [] how = "markdown" -> LowerLine(LStrip(line, {"##"}))
      [] how = "numbered" -> LowerLine(Tail(line))

\* if current_content: sections[current_section] = '\n'.join(current_content)
SaveSection(sections, current_section, current_content) ==
    IF current_content # <<>> THEN DictSet(sections, current_section, current_content)
    ELSE sections

RECURSIVE SplitFrom(_, _, _, _, _, _)
SplitFrom(how, lines, i, sections, current_section, current_content) ==
    IF i > Len(lines) THEN SaveSection(sections, current_section, current_content)
    ELSE IF lines[i] = <<>>
         THEN SplitFrom(how, lines, i + 1, sections, current_section, current_content)
    ELSE IF IsHeader(how, lines[i])
         THEN SplitFrom(how, lines, i + 1,
                        SaveSection(sections, current_section, current_content),
                        TitleOf(how, lines[i]), <<>>)
    ELSE SplitFrom(how, lines, i + 1, sections, current_section,
                   Append(current_content, lines[i]))

split_by_headers(content) ==
    SplitFrom("headers", content, 1, <<>>, <<"introduction">>, <<>>)

split_by_markdown_headers(content) ==
    SplitFrom("markdown", content, 1, <<>>, <<"introduction">>, <<>>)

split_by_numbered_sections(content) ==
    SplitFrom("numbered", content, 1, <<>>, <<"introduction">>, <<>>)

\* --------------------------------------------------------- goal extraction
GOAL_CATEGORIES ==
    << [key |-> "fitness",       name |-> "Physical Fitness"],
       [key |-> "health",        name |-> "Health & Wellness"],
       [key |-> "learning",      name |-> "Learning & Education"],
       [key |-> "education",     name |-> "Learning & Education"],
       [key |-> "business",      name |-> "Business & Career"],
       [key |-> "career",        name |-> "Business & Career"],
       [key |-> "technology",    name |-> "Technology"],
       [key |-> "tech",          name |-> "Technology"],
       [key |-> "creativity",    name |-> "Creative Arts"],
       [key |-> "art",           name |-> "Creative Arts"],
       [key |-> "travel",        name |-> "Travel & Adventure"],
       [key |-> "food",          name |-> "Food & Cooking"],
       [key |-> "cooking",       name |-> "Food & Cooking"],
       [key |-> "relationships", name |-> "Relationships"],
       [key |-> "social",        name |-> "Social Life"],
       [key |-> "finance",       name |-> "Financial Planning"],
       [key |-> "money",         name |-> "Financial Planning"],
       [key |-> "mindfulness",   name |-> "Mental Wellness"],
       [key |-> "mental",        name |-> "Mental Wellness"] >>

TERM_PATTERNS ==
    << [term |-> "30-day",
        patterns |-> <<"30[\\s\\-]?day", "one month", "next month", "short[\\s\\-]?term">>],
       [term |-> "90-day",
        patterns |-> <<"90[\\s\\-]?day", "three month", "quarter", "medium[\\s\\-]?term">>],
       [term |-> "1-year",
        patterns |-> <<"1[\\s\\-]?year", "one year", "annual", "long[\\s\\-]?term", "yearly">>] >>

Terms == <<"30-day", "90-day", "1-year">>

\* The least position <<line, token>> of a non-empty set of positions, in text order.
FirstPos(S) ==
    CHOOSE p \in S : \A q \in S : p[1] < q[1] \/ (p[1] = q[1] /\ p[2] <= q[2])

Positions(text) ==
    UNION {{<<l, i>> : i \in 1..Len(text[l])} : l \in 1..Len(text)}

\* Matches of key.*?<percent> : a token that contains key, then a percent token
\* later on the same line ('.' does not match a newline); paren: \((\d+)%\).
PctOf(tok, paren) == IF paren THEN TokenTable[tok].paren_pct ELSE TokenTable[tok].pct

\* The first percent token after position p on its line (.*? is not greedy).
PctAfter(text, p, paren) ==
    PctOf(text[p[1]][CHOOSE j \in (p[2] + 1)..Len(text[p[1]]) :
                         /\ PctOf(text[p[1]][j], paren) >= 0
                         /\ \A k \in (p[2] + 1)..(j - 1) : PctOf(text[p[1]][k], paren) < 0],
          paren)

FirstPctAfter(text, starts, paren) ==
    IF starts = {} THEN NoPct ELSE PctAfter(text, FirstPos(starts), paren)

KeyThenPct(text, key, paren) ==
    FirstPctAfter(text,
                  {p \in Positions(text) :
                      /\ key \in TokenTable[text[p[1]][p[2]]].sub
                      /\ \E j \in (p[2] + 1)..Len(text[p[1]]) :
                             PctOf(text[p[1]][j], paren) >= 0},
                  paren)

\* Matches of (\d+)%.*key : a percent token, then key later on the same line.
PctAt(text, p) == TokenTable[text[p[1]][p[2]]].pct

FirstPctAt(text, starts) == IF starts = {} THEN NoPct ELSE PctAt(text, FirstPos(starts))

PctThenKey(text, key) ==
    FirstPctAt(text,
               {p \in Positions(text) :
                   /\ TokenTable[text[p[1]][p[2]]].pct >= 0
                   /\ \E j \in (p[2] + 1)..Len(text[p[1]]) :
                          key \in TokenTable[text[p[1]][j]].sub})

DefaultPercentage == 30

\* The first of the values that is a percentage: the override, the matches of
\* the three percentage_patterns in their order, the default.
FirstPercentage(override_percentage, paren_after, after, before) ==
    IF override_percentage # NoPct THEN override_percentage
    ELSE IF paren_after # NoPct THEN paren_after
    ELSE IF after # NoPct THEN after
    ELSE IF before # NoPct THEN before
    ELSE DefaultPercentage

extract_percentage(text, key, override_percentage) ==
    FirstPercentage(override_percentage, KeyThenPct(text, key, TRUE),
                    KeyThenPct(text, key, FALSE), PctThenKey(text, key))

\* One goal per match of the pattern for which a sentence of the context holds
\* the pattern's source text.  The sources hold no '.', so a sentence of the
\* context holds one iff the context does; the context always holds the match.
RECURSIVE GoalsOfPattern(_, _, _, _, _)
GoalsOfPattern(flat, i, term, pattern, category) ==
    IF i > Len(flat) THEN <<>>
    ELSE (IF /\ pattern \in TokenTable[flat[i]].term_match
             /\ \E k \in 1..Len(flat) : pattern \in TokenTable[flat[k]].term_literal
          THEN <<[term |-> term, title |-> <<category, term, "Goal">>, from |-> "text"]>>
          ELSE <<>>)
         \o GoalsOfPattern(flat, i + 1, term, pattern, category)

RECURSIVE GoalsOfPatterns(_, _, _, _, _)
GoalsOfPatterns(flat, term, patterns, n, category) ==
    IF n > Len(patterns) THEN <<>>
    ELSE GoalsOfPattern(flat, 1, term, patterns[n], category)
         \o GoalsOfPatterns(flat, term, patterns, n + 1, category)

RECURSIVE GoalsOfTerms(_, _, _)
GoalsOfTerms(flat, t, category) ==
    IF t > Len(TERM_PATTERNS) THEN <<>>
    ELSE GoalsOfPatterns(flat, TERM_PATTERNS[t].term, TERM_PATTERNS[t].patterns, 1, category)
         \o GoalsOfTerms(flat, t + 1, category)

RECURSIVE Backfill(_, _, _)
Backfill(goals, t, category) ==
    IF t > Len(Terms) THEN goals
    ELSE IF \E i \in 1..Len(goals) : goals[i].term = Terms[t]
         THEN Backfill(goals, t + 1, category)
    ELSE Backfill(Append(goals, [term |-> Terms[t], title |-> <<category, Terms[t], "Goal">>,
                                 from |-> "backfill"]),
                  t + 1, category)

GoalsPerArea == 3

FirstN(s, n) == SubSeq(s, 1, IF Len(s) < n THEN Len(s) ELSE n)

extract_specific_goals(text, category) ==
    FirstN(Backfill(GoalsOfTerms(Flat(text), 1, category), 1, category), GoalsPerArea)

create_generic_goals(text) ==
    << [category |-> "general", name |-> "Personal Development",
        percentage |-> 100, save_count |-> 100,
        goals |-> << [term |-> "30-day", title |-> <<"Short-term Focus">>, from |-> "generic"],
                     [term |-> "90-day", title |-> <<"Medium-term Development">>, from |-> "generic"],
                     [term |-> "1-year", title |-> <<"Long-term Growth">>, from |-> "generic"] >>] >>

\* goals.append({...}) of one category; save_count is int(percentage).
GoalOfCategory(category, pct, specific_goals) ==
    [category |-> category.key, name |-> category.name,
     percentage |-> pct, save_count |-> pct, goals |-> specific_goals]

RECURSIVE GoalsOfCategories(_, _, _)
GoalsOfCategories(text, c, override_percentage) ==
    IF c > Len(GOAL_CATEGORIES) THEN <<>>
    ELSE (IF HasWord(text, GOAL_CATEGORIES[c].key)
          THEN << GoalOfCategory(GOAL_CATEGORIES[c],
                      extract_percentage(text, GOAL_CATEGORIES[c].key, override_percentage),
                      extract_specific_goals(text, GOAL_CATEGORIES[c].key)) >>
          ELSE <<>>)
         \o GoalsOfCategories(text, c + 1, override_percentage)

\* if not goals: goals = self._create_generic_goals(text)
GoalsOrElse(goals, otherwise) == IF goals = <<>> THEN otherwise ELSE goals

extract_goals_from_text(text, override_percentage) ==
    GoalsOrElse(GoalsOfCategories(text, 1, override_percentage), create_generic_goals(text))

\* ------------------------------------------------------ behavioral patterns
PatternTypes ==
    << [type |-> "content_preference", phrase |-> "content preference"],
       [type |-> "posting_frequency",  phrase |-> "posting frequency"],
       [type |-> "engagement_style",   phrase |-> "engagement style"],
       [type |-> "learning_style",     phrase |-> "learning style"],
       [type |-> "motivation_cycle",   phrase |-> "motivation cycle"] >>

PatternsPerText == 3

RECURSIVE PatternsOfTypes(_, _)
PatternsOfTypes(text, t) ==
    IF t > Len(PatternTypes) THEN <<>>
    ELSE (IF HasAnySub(text, {PatternTypes[t].phrase, "pattern", "behavior", "habit"})
          THEN <<[type |-> PatternTypes[t].type]>>
          ELSE <<>>)
         \o PatternsOfTypes(text, t + 1)

extract_patterns_from_text(text) == FirstN(PatternsOfTypes(text, 1), PatternsPerText)

\* ------------------------------------------------------------------ bullets
create_default_goals(category) ==
    << [term |-> "30-day", title |-> <<category, "Quick Start">>, from |-> "default"],
       [term |-> "90-day", title |-> <<category, "Skill Building">>, from |-> "default"],
       [term |-> "1-year", title |-> <<category, "Mastery">>, from |-> "default"] >>

category_terms ==
    << [category |-> "fitness",    terms |-> {"workout", "exercise", "gym", "sport", "training"}],
       [category |-> "learning",   terms |-> {"learn", "study", "education", "course", "skill"}],
       [category |-> "business",   terms |-> {"work", "career", "professional", "job", "business"}],
       [category |-> "technology", terms |-> {"tech", "coding", "programming", "software", "digital"}],
       [category |-> "creativity", terms |-> {"creative", "art", "design", "music", "writing"}] >>

determine_goal_category(line) ==
    IF \E c \in 1..Len(GOAL_CATEGORIES) : LineHasSub(line, GOAL_CATEGORIES[c].key)
    THEN GOAL_CATEGORIES[CHOOSE c \in 1..Len(GOAL_CATEGORIES) :
                            /\ LineHasSub(line, GOAL_CATEGORIES[c].key)
                            /\ \A d \in 1..(c - 1) : ~LineHasSub(line, GOAL_CATEGORIES[d].key)].key
    ELSE IF \E c \in 1..Len(category_terms) :
                \E term \in category_terms[c].terms : LineHasSub(line, term)
    THEN category_terms[CHOOSE c \in 1..Len(category_terms) :
                            /\ \E term \in category_terms[c].terms : LineHasSub(line, term)
                            /\ \A d \in 1..(c - 1) :
                                   \A term \in category_terms[d].terms : ~LineHasSub(line, term)].category
    ELSE NoCategory

CategoryName(key) ==
    GOAL_CATEGORIES[CHOOSE c \in 1..Len(GOAL_CATEGORIES) : GOAL_CATEGORIES[c].key = key].name

\* re.findall(marker \s+ (.+)): a marker token, any white space (newlines too),
\* then the rest of the line the next token is on; the scan resumes after it.
\* The first token after position i that is no newline.
NextToken(flat, i) ==
    CHOOSE j \in (i + 1)..Len(flat) :
        flat[j] # "\n" /\ \A k \in (i + 1)..(j - 1) : flat[k] = "\n"

\* The last token of the line that token j is on.
LineEnd(flat, j) ==
    CHOOSE e \in j..Len(flat) :
        /\ \A k \in j..e : flat[k] # "\n"
        /\ (e = Len(flat) \/ flat[e + 1] = "\n")

RECURSIVE BulletMatches(_, _, _)

BulletMatchesFrom(flat, j, e, marker) ==
    <<SubSeq(flat, j, e)>> \o BulletMatches(flat, e + 1, marker)

BulletMatches(flat, i, marker) ==
    IF i > Len(flat) THEN <<>>
    ELSE IF marker \in TokenTable[flat[i]].bullet
              /\ \E j \in (i + 1)..Len(flat) : flat[j] # "\n"
         THEN BulletMatchesFrom(flat, NextToken(flat, i), LineEnd(flat, NextToken(flat, i)),
                                marker)
    ELSE BulletMatches(flat, i + 1, marker)

bullet_patterns == <<"U+2022", "*", "-", "N.">>

BulletPercentage == 25

\* goals.append({...}) of one bullet, if its text names a category.
GoalOfBullet(category) ==
    IF category = NoCategory THEN <<>>
    ELSE << [category |-> category, name |-> CategoryName(category),
             percentage |-> BulletPercentage, save_count |-> BulletPercentage,
             goals |-> create_default_goals(category)] >>

RECURSIVE GoalsOfBullets(_, _)
GoalsOfBullets(matches, m) ==
    IF m > Len(matches) THEN <<>>
    ELSE (IF \E w \in {"goal", "aim", "target", "achieve", "improve"} : LineHasSub(matches[m], w)
          THEN GoalOfBullet(determine_goal_category(matches[m]))
          ELSE <<>>)
         \o GoalsOfBullets(matches, m + 1)

RECURSIVE GoalsOfBulletPatterns(_, _)
GoalsOfBulletPatterns(text, b) ==
    IF b > Len(bullet_patterns) THEN <<>>
    ELSE GoalsOfBullets(BulletMatches(Flat(text), 1, bullet_patterns[b]), 1)
         \o GoalsOfBulletPatterns(text, b + 1)

extract_goals_from_bullets(text) == GoalsOfBulletPatterns(text, 1)

\* ------------------------------------------------------------ the parsers
\* The keyword sets a section title is routed by; the first set that has a
\* term in the title decides (if / elif / elif).
RouteTerms(family) ==
    CASE family = "claude" ->
            [goal |-> {"goal", "recommendation", "objective"},
             pattern |-> {"pattern", "behavior", "habit"},
             insight |-> {"insight", "analysis", "finding"}]
      [] family = "nova" ->
            [goal |-> {"goal", "recommendation", "action", "plan"},
             pattern |-> {"pattern", "behavior", "trend", "analysis"},
             insight |-> {"insight", "conclusion", "summary"}]
      [] family = "llama" ->
            [goal |-> {"goal", "action", "plan", "step"},
             pattern |-> {"pattern", "behavior", "habit", "trend"},
             insight |-> {"insight", "observation", "analysis"}]

Route(family, title) ==
    IF \E term \in RouteTerms(family).goal : LineHasSub(title, term) THEN "goal"
    ELSE IF \E term \in RouteTerms(family).pattern : LineHasSub(title, term) THEN "pattern"
    ELSE IF \E term \in RouteTerms(family).insight : LineHasSub(title, term) THEN "insight"
    ELSE "none"

\* re.search(r'\((\d+)%\)', section_title): the first (N%) of the title, or None.
TitlePercentage(title) ==
    IF \E i \in 1..Len(title) : TokenTable[title[i]].paren_pct >= 0
    THEN TokenTable[title[CHOOSE i \in 1..Len(title) :
                              /\ TokenTable[title[i]].paren_pct >= 0
                              /\ \A k \in 1..(i - 1) : TokenTable[title[k]].paren_pct < 0]].paren_pct
    ELSE NoPct

\* Only the Claude parser hands the title's percentage to the goal extraction.
SectionOverride(family, title) ==
    IF family = "claude" THEN TitlePercentage(title) ELSE NoPct

RECURSIVE SectionGoals(_, _, _)
SectionGoals(family, sections, s) ==
    IF s > Len(sections) THEN <<>>
    ELSE (IF Route(family, sections[s].title) = "goal"
          THEN extract_goals_from_text(sections[s].body,
                                       SectionOverride(family, sections[s].title))
          ELSE <<>>)
         \o SectionGoals(family, sections, s + 1)

RECURSIVE SectionPatterns(_, _, _)
SectionPatterns(family, sections, s) ==
    IF s > Len(sections) THEN <<>>
    ELSE (IF Route(family, sections[s].title) = "pattern"
          THEN extract_patterns_from_text(sections[s].body)
          ELSE <<>>)
         \o SectionPatterns(family, sections, s + 1)

\* parsed['insights'] is filled by the parsers and read by nobody: it is left out.
parsed_of(goal_areas, behavioral_patterns) ==
    [goal_areas |-> goal_areas, behavioral_patterns |-> behavioral_patterns]

\* if not parsed['goal_areas'] and not parsed['behavioral_patterns']: both are
\* taken from the whole text.
BothOrElse(parsed, otherwise) ==
    IF parsed.goal_areas = <<>> /\ parsed.behavioral_patterns = <<>> THEN otherwise ELSE parsed

\* if not parsed['goal_areas']: ...; if not parsed['behavioral_patterns']: ...
EachOrElse(parsed, goal_areas, behavioral_patterns) ==
    [goal_areas |-> IF parsed.goal_areas = <<>> THEN goal_areas ELSE parsed.goal_areas,
     behavioral_patterns |-> IF parsed.behavioral_patterns = <<>> THEN behavioral_patterns
                             ELSE parsed.behavioral_patterns]

SectionsParsed(family, sections) ==
    parsed_of(SectionGoals(family, sections, 1), SectionPatterns(family, sections, 1))

parse_claude_content(content) ==
    BothOrElse(SectionsParsed("claude", split_by_headers(content)),
               parsed_of(extract_goals_from_text(content, NoPct),
                         extract_patterns_from_text(content)))

parse_nova_content(content) ==
    EachOrElse(SectionsParsed("nova", split_by_markdown_headers(content)),
               extract_goals_from_text(content, NoPct),
               extract_patterns_from_text(content))

parse_llama_content(content) ==
    EachOrElse(SectionsParsed("llama", split_by_numbered_sections(content)),
               extract_goals_from_bullets(content),
               extract_patterns_from_text(content))

parse_generic_content(content) ==
    [goal_areas |-> extract_goals_from_text(content, NoPct),
     behavioral_patterns |-> extract_patterns_from_text(content)]

\* ------------------------------------------------------- normalize_response
Returned(value) == [status |-> "returned", result |-> value]
Raised(exception, message) == [status |-> "raised", exception |-> exception, message |-> message]

GetOr(value, default) == IF value = Absent THEN default ELSE value

(***************************************************************************)
(* raw_response['content'], by what the code can tell apart:               *)
(*   absent, empty      no key / a falsy value                             *)
(*   plain              a text ast.literal_eval rejects (ValueError,       *)
(*                      SyntaxError)                                       *)
(*   dict               "{'role': .., 'content': [{'text': <text>}]}"      *)
(*   dict_no_text       a dict literal whose first content item has no     *)
(*                      'text'                                             *)
(*   dict_text_not_str  a dict literal whose 'text' is not a string        *)
(*   literal_not_dict   a literal of another shape (a quoted text)         *)
(*   unhashable_key     a display such as "{[1]: 2}": literal_eval raises  *)
(*                      TypeError                                          *)
(*   not_str            a truthy value that is not a string                *)
(***************************************************************************)
Content(kind, text) == [kind |-> kind, text |-> text]

\* The value returned: a string (str = TRUE, its text) or another object.
extract_content_text(raw) ==
    CASE raw.content.kind \in {"absent", "empty"} ->
            Raised("ValueError", "No content found in response")
      [] raw.content.kind \in {"plain", "literal_not_dict"} ->
            Returned([str |-> TRUE, text |-> raw.content.text])
      [] raw.content.kind = "dict" ->
            Returned([str |-> TRUE, text |-> raw.content.text])
      [] raw.content.kind = "dict_no_text" ->
            Returned([str |-> TRUE, text |-> <<>>])
      [] raw.content.kind = "dict_text_not_str" ->
            Returned([str |-> FALSE, text |-> <<>>])
      [] raw.content.kind = "unhashable_key" ->
            Raised("TypeError", "unhashable type")
      [] raw.content.kind = "not_str" ->
            Returned([str |-> FALSE, text |-> <<>>])

\* self.model_parsers.get(model_family, self._parse_generic_content), applied;
\* every parser starts with a str method of its argument.
parser_func(model_family, content_text) ==
    IF ~content_text.str THEN Raised("AttributeError", "object has no attribute")
    ELSE Returned(CASE model_family = "claude" -> parse_claude_content(content_text.text)
                    [] model_family = "nova" -> parse_nova_content(content_text.text)
                    [] model_family = "llama" -> parse_llama_content(content_text.text)
                    [] OTHER -> parse_generic_content(content_text.text))

CostTier == {"very_low", "low", "medium", "high"}

\* ModelInfo(...): CostTier(value) raises ValueError for a value outside the enum.
model_info_of(raw) ==
    IF GetOr(raw.cost_tier, "medium") \notin CostTier
    THEN Raised("ValueError", "is not a valid CostTier")
    ELSE Returned([provider |-> GetOr(raw.provider, "unknown"),
                   model |-> GetOr(raw.model, "unknown"),
                   latency_ms |-> raw.latency_ms,
                   cost_tier |-> GetOr(raw.cost_tier, "medium")])

DefaultTotalPosts == 100

GoalAreaOf(goal_data) ==
    [id |-> goal_data.category,
     name |-> goal_data.name,
     evidence |-> determine_evidence_level(goal_data.percentage),
     percentage |-> goal_data.percentage,
     save_count |-> goal_data.save_count,
     goals |-> goal_data.goals]

InterestOf(goal) ==
    [category |-> goal.name,
     percentage |-> goal.percentage,
     goal_potential |-> determine_goal_potential(goal.percentage)]

\* AnalysisResult(...), unless building model_info raised.
ResultWith(model_info, goal_areas, behavioral_patterns, interests, raw_model_output) ==
    IF model_info.status = "raised" THEN model_info
    ELSE Returned([total_posts |-> DefaultTotalPosts,
                   model_info |-> model_info.result,
                   goal_areas |-> goal_areas,
                   behavioral_patterns |-> behavioral_patterns,
                   interest_distribution |-> interests,
                   raw_model_output |-> raw_model_output])

InterestsOf(goal_areas) == [i \in 1..Len(goal_areas) |-> InterestOf(goal_areas[i])]

GoalAreasOf(parsed_goals) == [i \in 1..Len(parsed_goals) |-> GoalAreaOf(parsed_goals[i])]

build_analysis_result(raw, parsed_content) ==
    ResultWith(model_info_of(raw),
               GoalAreasOf(parsed_content.goal_areas),
               parsed_content.behavioral_patterns,
               InterestsOf(GoalAreasOf(parsed_content.goal_areas)),
               <<"content", raw.content>>)

FallbackPercentage == 50
FallbackInterestPercentage == 100

create_fallback_result(raw, error) ==
    ResultWith(model_info_of(raw),
               << [id |-> "fallback",
                   name |-> "General Development",
                   evidence |-> "MEDIUM",
                   percentage |-> FallbackPercentage,
                   save_count |-> FallbackPercentage,
                   goals |-> << [term |-> "30-day",
                                 title |-> <<"Short-term Focus">>,
                                 from |-> "fallback"] >>] >>,
               <<>>,
               << [category |-> "General",
                   percentage |-> FallbackInterestPercentage,
                   goal_potential |-> "Medium"] >>,
               <<"Parsing error: ", error>>)

\* The except block, had it dropped the message of the exception.
or_fallback_without_message(raw, outcome) ==
    IF outcome.status = "raised" THEN create_fallback_result(raw, "") ELSE outcome

\* try: extract, dispatch, parse, build; except Exception as e: fallback(str(e)).
\* except Exception as e: return self._create_fallback_result(raw_response, str(e))
OrFallback(raw, outcome) ==
    IF outcome.status = "raised" THEN create_fallback_result(raw, outcome.message) ELSE outcome

\* A step of the try block: it runs unless an earlier step raised.
Then_parse(raw, content_text) ==
    IF content_text.status = "raised" THEN content_text
    ELSE parser_func(GetOr(raw.model_family, "unknown"), content_text.result)

Then_build(raw, parsed_content) ==
    IF parsed_content.status = "raised" THEN parsed_content
    ELSE build_analysis_result(raw, parsed_content.result)

normalize_response(raw) ==
    OrFallback(raw, Then_build(raw, Then_parse(raw, extract_content_text(raw))))

\* ------------------------------------------------------------------ inputs
MaxMetaLines == 1

Families == {"claude", "nova", "llama", "other"}

MetaContents ==
    {Content(k, <<>>) : k \in {"absent", "empty", "dict_no_text", "dict_text_not_str",
                               "unhashable_key", "not_str"}}
    \cup {Content(k, text) : k \in {"plain", "dict", "literal_not_dict"},
                             text \in SeqsUpTo(LineKinds, MaxMetaLines) \ {<<>>}}

\* Texts of two titled sections with one line each: the second title is
\* another pattern title, or the first one again.
TwoSectionTexts ==
    {<< <<"##", "patterns">>, body1, header2, body2 >> :
        header2 \in {<<"##", "patterns", ".">>, <<"**", "habit", "**">>, <<"##", "patterns">>},
        body1 \in {<<"-", "habit">>, <<"-", "improve", "workout">>},
        body2 \in {<<"-", "habit">>, <<"-", "improve", "workout">>}}

\* Every text with every family, the texts of two sections with every family,
\* and the short contents with every value of the metadata fields.
RawResponses ==
    {[content |-> Content("plain", text), model_family |-> f, provider |-> "anthropic",
      model |-> "claude-3-5-sonnet", latency_ms |-> 5000, cost_tier |-> "high"] :
        text \in TwoSectionTexts, f \in Families}
    \cup
    {[content |-> Content("plain", text), model_family |-> f, provider |-> "anthropic",
      model |-> "claude-3-5-sonnet", latency_ms |-> 5000, cost_tier |-> "high"] :
        text \in Texts \ {<<>>}, f \in Families}
    \cup
    {[content |-> c, model_family |-> f, provider |-> p,
      model |-> "claude-3-5-sonnet", latency_ms |-> 5000, cost_tier |-> t] :
        c \in MetaContents, f \in Families \cup {Absent},
        p \in {"anthropic", Absent}, t \in {"medium", Absent, "free"}}

\* ------------------------------------------- the multi-type Instagram export
KnownDataTypes == {"saved_posts", "liked_posts", "comments", "user_posts", "following"}

\* "stories": a data type the parser has no branch for.
DataTypeNames == KnownDataTypes \cup {"stories"}

\* The key of a section that holds the list of items.
ItemsKey(data_type) ==
    CASE data_type = "saved_posts" -> "saved_saved_media"
      [] data_type = "liked_posts" -> "likes_media_likes"
      [] data_type = "comments" -> "comments_media_comments"
      [] data_type = "user_posts" -> "content"
      [] data_type = "following" -> "relationships_following"
      [] OTHER -> "<no key>"

(***************************************************************************)
(* A section of raw_data, by what the code can tell apart:                 *)
(*   absent   the data type is no key of raw_data                          *)
(*   dict     a mapping; key: it has ItemsKey; n: the length of that list  *)
(*   list     a bare list of n items                                       *)
(*   null     None                                                         *)
(* The list itself is its length: item i of a list is ItemAt(i), but for   *)
(* item bad_at (0: none), which is malformed in the way bad_kind says.     *)
(***************************************************************************)
SectionWithBad(shape, key, n, bad_at, bad_kind) ==
    [shape |-> shape, key |-> key, n |-> n, bad_at |-> bad_at, bad_kind |-> bad_kind]

Section(shape, key, n) == SectionWithBad(shape, key, n, 0, "ok")
AbsentSection == Section("absent", FALSE, 0)

ItemAt(i) ==
    [kind |-> "ok",
     title |-> IF i % 2 = 1 THEN "user_a" ELSE "user_b",
     timestamp |-> i,
     href |-> IF i % 3 = 0 THEN "/reel/" ELSE "/p/"]

(***************************************************************************)
(* A malformed item, by what the branches can tell apart.  The nested      *)
(* field is string_map_data (saved_posts, comments), string_list_data      *)
(* (liked_posts, following) or media (user_posts).                         *)
(*   missing_nested   the item has no nested field                         *)
(*   null_nested      the nested field is None                             *)
(*   empty_nested     the nested field is empty ({} or [])                 *)
(*   bad_timestamp    the timestamp is a string                            *)
(*   not_mapping      the item is a string                                 *)
(*   null_item        the item is None                                     *)
(*   raw_media_type   the item has no nested field but the flat keys       *)
(*                    creation_timestamp and media_type ('carousel')       *)
(***************************************************************************)
MalformedKinds ==
    {"missing_nested", "null_nested", "empty_nested", "bad_timestamp", "not_mapping",
     "null_item", "raw_media_type"}

ItemOf(section, i) ==
    IF i = section.bad_at THEN [ItemAt(i) EXCEPT !.kind = section.bad_kind] ELSE ItemAt(i)

\* data_section.get(key, []) on a mapping; a list or None has no get.
GetItems(section) ==
    IF section.shape = "dict"
    THEN Returned(IF section.key THEN section.n ELSE 0)
    ELSE Raised("AttributeError", "object has no attribute 'get'")

\* The list a data type's items are read from, as its length (lines 247-276 and
\* again lines 320, 360, 390-396, 438-444, 489).
section_items(data_type, section) ==
    CASE data_type \in {"saved_posts", "liked_posts", "following"} -> GetItems(section)
      [] data_type \in {"comments", "user_posts"} ->
            IF section.shape = "dict" THEN GetItems(section)
            ELSE IF section.shape = "list" THEN Returned(section.n)
            ELSE Returned(0)
      [] OTHER -> Returned(0)

\* for data_type in data_types: if data_type in raw_data: total_items += count
RECURSIVE count_total_items(_, _, _, _)
count_total_items(types, data, i, total) ==
    IF i > Len(types) THEN Returned(total)
    ELSE IF data[types[i]].shape = "absent" THEN count_total_items(types, data, i + 1, total)
    ELSE LET count == section_items(types[i], data[types[i]])
         IN  IF count.status = "raised" THEN count
             ELSE count_total_items(types, data, i + 1, total + count.result)

Max(a, b) == IF a >= b THEN a ELSE b
Min(a, b) == IF a <= b THEN a ELSE b

FallbackSample == 100
SmallTotal == 20
SmallSample == 10
MediumTotal == 100
MediumSample == 20
LargeTotal == 500
LargeSample == 50
MaxSample == 100
FullSample == 200

\* The small tier takes the whole dataset as the cap: the variant under which
\* a small dataset is always sampled in full.
sample_size_small_takes_all(debug, total, types) ==
    IF debug
    THEN IF total = 0 THEN FallbackSample
         ELSE IF total <= SmallTotal THEN total
         ELSE IF total <= MediumTotal THEN MediumSample
         ELSE IF total <= LargeTotal THEN LargeSample
         ELSE MaxSample
    ELSE FullSample

\* The tiers with exclusive upper ends (total < 20, < 100, < 500): the variant
\* that moves 20, 100 and 500 items into the next tier.
sample_size_exclusive_tiers(debug, total, types) ==
    IF debug
    THEN IF total = 0 THEN FallbackSample
         ELSE IF total < SmallTotal THEN Max(SmallSample, total \div Len(types))
         ELSE IF total < MediumTotal THEN MediumSample
         ELSE IF total < LargeTotal THEN LargeSample
         ELSE MaxSample
    ELSE FullSample

\* Reached with total > 0 only, so with a non-empty list of data types.
sample_size(debug, total, types) ==
    IF debug
    THEN IF total = 0 THEN FallbackSample
         ELSE IF total <= SmallTotal THEN Max(SmallSample, total \div Len(types))
         ELSE IF total <= MediumTotal THEN MediumSample
         ELSE IF total <= LargeTotal THEN LargeSample
         ELSE MaxSample
    ELSE FullSample

\* No slicing: the variant that takes every item of a data type.
sampled_length_unsliced(n, cap) == n

\* data[:cap] if len(data) > cap else data, as its length.
sampled_length(n, cap) == IF n > cap THEN cap ELSE n

InteractionType(data_type) ==
    CASE data_type = "saved_posts" -> "saved"
      [] data_type = "liked_posts" -> "liked"
      [] data_type = "comments" -> "commented"
      [] data_type = "user_posts" -> "posted"
      [] data_type = "following" -> "following"

SavedAt(timestamp) == IF timestamp # 0 THEN <<"iso", timestamp>> ELSE <<"unknown">>

\* InstagramPost(...) of one well-formed item.
post_of(data_type, item) ==
    CASE data_type = "saved_posts" ->
            [post_id |-> <<"saved", item.title, item.timestamp>>,
             author |-> item.title,
             media_type |-> IF item.href = "/reel/" THEN "reel"
                            ELSE IF item.href = "/p/" THEN "photo" ELSE "unknown",
             saved_at |-> SavedAt(item.timestamp),
             interaction_type |-> "saved"]
      [] data_type = "liked_posts" ->
            [post_id |-> <<"liked", item.title>>,
             author |-> item.title,
             media_type |-> "unknown",
             saved_at |-> SavedAt(item.timestamp),
             interaction_type |-> "liked"]
      [] data_type = "comments" ->
            [post_id |-> <<"comment", item.timestamp>>,
             author |-> item.title,
             media_type |-> "comment",
             saved_at |-> SavedAt(item.timestamp),
             interaction_type |-> "commented"]
      [] data_type = "user_posts" ->
            [post_id |-> <<"user_post", item.timestamp>>,
             author |-> "user",
             media_type |-> "photo",
             saved_at |-> SavedAt(item.timestamp),
             interaction_type |-> "posted"]
      [] data_type = "following" ->
            [post_id |-> <<"following", item.title>>,
             author |-> item.title,
             media_type |-> "profile",
             saved_at |-> SavedAt(item.timestamp),
             interaction_type |-> "following"]

\* The post of an item without its nested field: the initial values of the branch.
sentinel_post(data_type, item) ==
    CASE data_type = "saved_posts" ->
            [post_id |-> <<"saved", item.title, 0>>, author |-> item.title,
             media_type |-> "unknown", saved_at |-> <<"unknown">>, interaction_type |-> "saved"]
      [] data_type = "liked_posts" ->
            [post_id |-> <<"liked", item.title>>, author |-> item.title,
             media_type |-> "unknown", saved_at |-> <<"unknown">>, interaction_type |-> "liked"]
      [] data_type = "comments" ->
            [post_id |-> <<"comment", 0>>, author |-> "unknown",
             media_type |-> "comment", saved_at |-> <<"unknown">>,
             interaction_type |-> "commented"]
      [] data_type = "user_posts" ->
            [post_id |-> <<"user_post", 0>>, author |-> "user",
             media_type |-> "unknown", saved_at |-> <<"unknown">>,
             interaction_type |-> "posted"]
      [] data_type = "following" ->
            [post_id |-> <<"following", "unknown">>, author |-> "unknown",
             media_type |-> "profile", saved_at |-> <<"unknown">>,
             interaction_type |-> "following"]

\* One pass of the for item in sampled_data loop: the post, or the exception
\* that leaves the loop (no branch has a try).
post_of_item(data_type, item) ==
    CASE item.kind = "ok" -> Returned(post_of(data_type, item))
      [] item.kind = "missing_nested" -> Returned(sentinel_post(data_type, item))
      [] item.kind = "null_nested" ->
            \* following: item.get('string_list_data', [{}])[0] subscripts None
            IF data_type = "following"
            THEN Raised("TypeError", "'NoneType' object is not subscriptable")
            ELSE Returned(sentinel_post(data_type, item))
      [] item.kind = "empty_nested" ->
            \* following: item.get('string_list_data', [{}])[0] of an empty list
            IF data_type = "following" THEN Raised("IndexError", "list index out of range")
            ELSE Returned(sentinel_post(data_type, item))
      [] item.kind = "bad_timestamp" ->
            \* datetime.fromtimestamp(<str>)
            Raised("TypeError", "an integer is required (got type str)")
      [] item.kind = "not_mapping" ->
            \* '<key>' in <str> is False; comments never call item.get
            IF data_type = "comments" THEN Returned(sentinel_post(data_type, item))
            ELSE Raised("AttributeError", "'str' object has no attribute 'get'")
      [] item.kind = "null_item" ->
            \* '<key>' in None
            Raised("TypeError", "argument of type 'NoneType' is not iterable")
      [] item.kind = "raw_media_type" ->
            \* user_posts: media_type = item.get('media_type', 'unknown')
            IF data_type = "user_posts"
            THEN Returned([post_of(data_type, item) EXCEPT !.media_type = "carousel"])
            ELSE Returned(sentinel_post(data_type, item))

\* The sampled items taken last to first.
posts_of_section_reversed(data_type, section, count) ==
    IF \E k \in 1..count : post_of_item(data_type, ItemOf(section, k)).status = "raised"
    THEN Raised("Exception", "item")
    ELSE Returned([k \in 1..count |->
                      post_of_item(data_type, ItemOf(section, count + 1 - k)).result])

\* The posts of the first count items of a section, or the first exception.
posts_of_section(data_type, section, count) ==
    IF \E k \in 1..count : post_of_item(data_type, ItemOf(section, k)).status = "raised"
    THEN post_of_item(data_type,
             ItemOf(section, CHOOSE k \in 1..count :
                 /\ post_of_item(data_type, ItemOf(section, k)).status = "raised"
                 /\ \A j \in 1..(k - 1) :
                        post_of_item(data_type, ItemOf(section, j)).status = "returned"))
    ELSE Returned([k \in 1..count |-> post_of_item(data_type, ItemOf(section, k)).result])

RECURSIVE extract_posts(_, _, _, _, _)

\* The rest of the loop after the posts of data type i.
extract_posts_after(types, data, cap, i, posts, section_posts) ==
    IF section_posts.status = "raised" THEN section_posts
    ELSE extract_posts(types, data, cap, i + 1, posts \o section_posts.result)

\* The posts of data type i, once its list is read.
extract_posts_of(types, data, cap, i, posts, items) ==
    IF items.status = "raised" THEN items
    ELSE extract_posts_after(types, data, cap, i, posts,
             posts_of_section(types[i], data[types[i]], sampled_length(items.result, cap)))

\* for i, data_type in enumerate(data_types): if data_type in raw_data: ...
extract_posts(types, data, cap, i, posts) ==
    IF i > Len(types) THEN Returned(posts)
    ELSE IF data[types[i]].shape = "absent" \/ types[i] \notin KnownDataTypes
         THEN extract_posts(types, data, cap, i + 1, posts)
    ELSE extract_posts_of(types, data, cap, i, posts,
                          section_items(types[i], data[types[i]]))

\* Lines 219-530: count, choose the sample size, extract.  progress_per_type
\* (line 307) divides by len(data_types).
extract_phase(types, data, debug) ==
    LET total == count_total_items(types, data, 1, 0)
    IN  IF total.status = "raised" THEN total
        ELSE LET cap == sample_size(debug, total.result, types)
             IN  IF Len(types) = 0 THEN Raised("ZeroDivisionError", "float division by zero")
                 ELSE LET posts == extract_posts(types, data, cap, 1, <<>>)
                      IN  IF posts.status = "raised" THEN posts
                          ELSE Returned([total_items |-> total.result,
                                         sample_size_per_type |-> cap,
                                         all_posts |-> posts.result])

\* ------------------------------------------------------------------ inputs
Counts == {0, 10, 11, 90, 490}

CountedSections == {AbsentSection} \cup {Section("dict", TRUE, n) : n \in Counts}

SectionChoices ==
    CountedSections
    \cup {Section("dict", FALSE, 0), Section("null", FALSE, 0), Section("list", FALSE, 3),
          Section("dict", TRUE, 3), Section("dict", TRUE, 150)}

\* Lists of three items, the second one malformed.
MalformedSections ==
    {SectionWithBad("dict", TRUE, 3, 2, kind) : kind \in MalformedKinds}

Range(s) == {s[i] : i \in 1..Len(s)}

\* The sections of the listed data types vary; the others are absent.
RawDatas(types, choices) ==
    {[name \in DataTypeNames |-> IF name \in Range(types) THEN g[name] ELSE AbsentSection] :
        g \in [Range(types) -> choices]}

MaxShapedTypes == 1

\* Lists of at most MaxShapedTypes known data types with a malformed item, in
\* debug mode.
MalformedItemInputs ==
    UNION {{[data_types |-> types, raw_data |-> data, debug_mode |-> TRUE] :
               data \in RawDatas(types, MalformedSections \cup {Section("dict", TRUE, 3)})} :
           types \in SeqsUpTo(KnownDataTypes, MaxShapedTypes)}

\* Those, lists of at most MaxShapedTypes data types with sections of every
\* shape and both values of DEBUG_MODE, and lists of at most MaxTypes known
\* data types with well-formed sections of every length in debug mode.
ParserInputs ==
    MalformedItemInputs
    \cup
    UNION {{[data_types |-> types, raw_data |-> data, debug_mode |-> debug] :
               data \in RawDatas(types, SectionChoices), debug \in BOOLEAN} :
           types \in SeqsUpTo(DataTypeNames, MaxShapedTypes)}
    \cup
    UNION {{[data_types |-> types, raw_data |-> data, debug_mode |-> TRUE] :
               data \in RawDatas(types, CountedSections)} :
           types \in SeqsUpTo(KnownDataTypes, MaxTypes)}

\* The messages structured_output_async raises with.
AIErrors == {"AI API failed", "Rate limit exceeded"}

\* The message without the text of the exception caught.
analysis_failed_message_without_cause(error) == "Multi-type Instagram analysis failed"

\* f"Multi-type Instagram analysis failed: {str(e)}"
AnalysisFailedMessage(error) == "Multi-type Instagram analysis failed: " \o error

\* ----------------------------------------------------------------- actions
NoOutcome == [status |-> "none"]

NormalizerIdle ==
    /\ n_pc = "idle"
    /\ raw_response = [content |-> Content("absent", <<>>)]
    /\ n_outcome = NoOutcome
    /\ n_content_text = NoOutcome
    /\ try_outcome = NoOutcome

ThresholdsIdle ==
    /\ t_pc = "idle"
    /\ percentage = 0
    /\ evidence = ""
    /\ goal_potential = ""

ParserIdle ==
    /\ p_pc = "idle"
    /\ data_types = <<>>
    /\ raw_data = [name \in DataTypeNames |-> AbsentSection]
    /\ debug_mode = TRUE
    /\ total_items = 0
    /\ sample_size_per_type = 0
    /\ all_posts = <<>>
    /\ p_outcome = NoOutcome

\* A caller calls normalize_response(raw_response).
NormalizeResponse ==
    /\ n_pc = "call"
    /\ n_content_text' = extract_content_text(raw_response)
    /\ try_outcome' = Then_build(raw_response, Then_parse(raw_response, n_content_text'))
    /\ n_outcome' = OrFallback(raw_response, try_outcome')
    /\ n_pc' = "done"
    /\ UNCHANGED <<o_vars, raw_response, t_vars, p_vars, c_vars, g_vars, h_vars>>

\* A caller derives both levels of a percentage.
DetermineLevels ==
    /\ t_pc = "call"
    /\ evidence' = determine_evidence_level(percentage)
    /\ goal_potential' = determine_goal_potential(percentage)
    /\ t_pc' = "done"
    /\ UNCHANGED <<o_vars, percentage, n_vars, p_vars, c_vars, g_vars, h_vars>>

\* parse_multi_type_instagram_export up to its await: counting, sampling and
\* extraction succeed and the prompt is sent.
ExtractPosts ==
    /\ p_pc = "call"
    /\ LET phase == extract_phase(data_types, raw_data, debug_mode)
       IN  /\ phase.status = "returned"
           /\ total_items' = phase.result.total_items
           /\ sample_size_per_type' = phase.result.sample_size_per_type
           /\ all_posts' = phase.result.all_posts
    /\ p_pc' = "ai_call"
    /\ UNCHANGED <<o_vars, data_types, raw_data, debug_mode, p_outcome, n_vars, t_vars, c_vars,
                   g_vars, h_vars>>

\* parse_multi_type_instagram_export up to its await: an exception leaves it.
ExtractRaises ==
    /\ p_pc = "call"
    /\ LET phase == extract_phase(data_types, raw_data, debug_mode)
       IN  /\ phase.status = "raised"
           /\ p_outcome' = phase
    /\ p_pc' = "raised"
    /\ UNCHANGED <<o_vars, data_types, raw_data, debug_mode, total_items, sample_size_per_type,
                   all_posts, n_vars, t_vars, c_vars, g_vars, h_vars>>

\* structured_output_async returns: the metadata is attached and the result returned.
AnalysisReturns ==
    /\ p_pc = "ai_call"
    /\ p_outcome' = Returned([metadata |->
           [data_types_analyzed |-> data_types,
            total_items_available |-> total_items,
            total_items_processed |-> Len(all_posts),
            sampled_items_analyzed |-> Len(all_posts),
            analysis_type |-> "multi_type_consolidated",
            debug_mode |-> debug_mode,
            sample_size_per_type |-> sample_size_per_type]])
    /\ p_pc' = "done"
    /\ UNCHANGED <<o_vars, data_types, raw_data, debug_mode, total_items, sample_size_per_type,
                   all_posts, n_vars, t_vars, c_vars, g_vars, h_vars>>

\* structured_output_async raises: the exception is wrapped and raised again.
AnalysisFails ==
    /\ p_pc = "ai_call"
    /\ \E error \in AIErrors :
           /\ ai_error' = error
           /\ p_outcome' = Raised("Exception", AnalysisFailedMessage(error))
    /\ p_pc' = "raised"
    /\ UNCHANGED <<o_vars, data_types, raw_data, debug_mode, total_items, sample_size_per_type,
                   all_posts, n_vars, t_vars, c_vars, g_vars, h_rest>>

\* ------------------------------------------------------ provider comparison
MaxConfigs == 2
MaxLatency == 2

\* One element of request_body['providers']: a JSON object and the keys it has.
ProviderConfig(keys, provider, model) == [keys |-> keys, provider |-> provider, model |-> model]

ProviderConfigs ==
    {ProviderConfig({"provider", "model"}, "anthropic", "claude-3-5-sonnet-20241022"),
     ProviderConfig({"provider", "model"}, "bedrock", "anthropic.claude-3-5-sonnet-20241022-v2:0"),
     ProviderConfig({"provider", "model"}, "bedrock", "us.amazon.nova-micro-v1:0"),
     ProviderConfig({"provider", "model"}, "openai", "gpt-4"),
     ProviderConfig({"provider"}, "nova", "")}

\* The providers create_strands_agent builds a model for.
SupportedProviders == {"anthropic", "bedrock", "nova", "llama"}

\* The exceptions the try block of one arm can raise: create_strands_agent
\* (unsupported provider, no API key) or the agent call.
ArmErrors(config) ==
    IF config.provider \notin SupportedProviders THEN {"Unsupported provider"}
    ELSE IF config.provider = "anthropic" THEN AIErrors \cup {"ANTHROPIC_API_KEY not found"}
    ELSE AIErrors

\* response_data of an arm whose try block completed.  extract_strands_response
\* gives success True, or success False when the extraction itself failed.
response_data(config, success, latency_ms) == [provider |-> config.provider, model |-> config.model, success |-> success, latency_ms |-> latency_ms, error |-> IF success THEN "" ELSE "Response extraction error"]

\* The record of the except block of one arm (it has no latency_ms: 0 here).
error_data(config, error) == [provider |-> config.provider, model |-> config.model, success |-> FALSE, latency_ms |-> 0, error |-> error]

\* A dict is the sequence of its items in insertion order.
dict_has(dict, key) == \E i \in 1..Len(dict) : dict[i].key = key

\* dict[key] = value
dict_set(dict, key, value) ==
    IF dict_has(dict, key)
    THEN [i \in 1..Len(dict) |-> IF dict[i].key = key THEN [key |-> key, value |-> value] ELSE dict[i]]
    ELSE Append(dict, [key |-> key, value |-> value])

dict_keys(dict) == [i \in 1..Len(dict) |-> dict[i].key]

Succeeded(item) == item.value.success

\* latencies of calculate_comparison_metrics, had it taken every arm.
latencies_of_all(results) == [i \in 1..Len(results) |-> [key |-> results[i].key, value |-> results[i].value.latency_ms]]

RECURSIVE sum_values(_)
sum_values(dict) == IF dict = <<>> THEN 0 ELSE Head(dict).value + sum_values(Tail(dict))

\* min(latencies.keys(), key=...): the first key of a minimal value.
min_key(dict) ==
    dict[CHOOSE i \in 1..Len(dict) :
             /\ \A j \in 1..Len(dict) : dict[i].value <= dict[j].value
             /\ \A j \in 1..(i - 1) : dict[j].value > dict[i].value].key

dict_get(dict, key) == dict[CHOOSE i \in 1..Len(dict) : dict[i].key = key].value

\* sum / len as the exact quotient.
Quotient(sum, count) == [numerator |-> sum, denominator |-> count]

success_rates_of(results) == [i \in 1..Len(results) |-> [key |-> results[i].key, value |-> IF Succeeded(results[i]) THEN 1 ELSE 0]]

summary_of(results, success_rates) == [providers_tested |-> Len(results), all_successful |-> \A i \in 1..Len(success_rates) : success_rates[i].value # 0, success_by_provider |-> success_rates]

performance_comparison_of(latencies) == [fastest_provider |-> min_key(latencies), fastest_time_ms |-> dict_get(latencies, min_key(latencies)), latency_by_provider |-> latencies, average_latency_ms |-> Quotient(sum_values(latencies), Len(latencies))]

with_performance(summary, latencies) ==
    IF latencies # <<>>
    THEN summary @@ [performance_comparison |-> performance_comparison_of(latencies)]
    ELSE summary

calculate_comparison_metrics_all_arms(results) ==
    IF results = <<>> THEN <<>>
    ELSE with_performance(summary_of(results, success_rates_of(results)), latencies_of_all(results))

\* latencies of calculate_comparison_metrics: the arms with success True.
latencies_of(results) == latencies_of_all(SelectSeq(results, Succeeded))

calculate_comparison_metrics(results) ==
    IF results = <<>> THEN <<>>
    ELSE with_performance(summary_of(results, success_rates_of(results)), latencies_of(results))

ComparisonIdle ==
    /\ c_pc = "idle"
    /\ providers_config = <<>>
    /\ c_index = 0
    /\ comparison_results = <<>>
    /\ c_response = [statusCode |-> 0]

\* The content is found (or content_id is "test"): the loop begins.
CompareStart ==
    /\ c_pc = "call"
    /\ c_pc' = "loop"
    /\ c_index' = 1
    /\ UNCHANGED <<o_vars, providers_config, comparison_results, c_response, n_vars, t_vars, p_vars,
                   g_vars, h_vars>>

\* get_content_data gives nothing: 404.
CompareContentNotFound ==
    /\ c_pc = "call"
    /\ c_response' = [statusCode |-> 404, error |-> "Content not found"]
    /\ c_pc' = "done"
    /\ UNCHANGED <<o_vars, providers_config, c_index, comparison_results, n_vars, t_vars, p_vars,
                   g_vars, h_vars>>

\* The configuration the loop is at has both keys.
ArmReady ==
    /\ c_pc = "loop"
    /\ c_index <= Len(providers_config)
    /\ providers_config[c_index].keys = {"provider", "model"}

\* One pass of the loop whose try block completes.
ArmReturns ==
    /\ ArmReady
    /\ providers_config[c_index].provider \in SupportedProviders
    /\ \E success \in BOOLEAN, latency_ms \in 1..MaxLatency :
           comparison_results' =
               dict_set(comparison_results, providers_config[c_index].provider,
                        response_data(providers_config[c_index], success, latency_ms))
    /\ c_index' = c_index + 1
    /\ UNCHANGED <<o_vars, c_pc, providers_config, c_response, n_vars, t_vars, p_vars, g_vars, h_vars>>

\* One pass of the loop whose try block raises: the except block records it.
ArmRaises ==
    /\ ArmReady
    /\ \E error \in ArmErrors(providers_config[c_index]) :
           comparison_results' =
               dict_set(comparison_results, providers_config[c_index].provider,
                        error_data(providers_config[c_index], error))
    /\ c_index' = c_index + 1
    /\ UNCHANGED <<o_vars, c_pc, providers_config, c_response, n_vars, t_vars, p_vars, g_vars, h_vars>>

\* provider_config['provider'] or ['model'] raises KeyError outside the inner
\* try: the outer except answers 500.
CompareRaises ==
    /\ c_pc = "loop"
    /\ c_index <= Len(providers_config)
    /\ providers_config[c_index].keys # {"provider", "model"}
    /\ c_response' = [statusCode |-> 500, error |-> "Provider comparison failed"]
    /\ c_pc' = "done"
    /\ UNCHANGED <<o_vars, providers_config, c_index, comparison_results, n_vars, t_vars, p_vars,
                   g_vars, h_vars>>

\* The loop is over: the summary is computed and the handler answers 200.
CompareResponds ==
    /\ c_pc = "loop"
    /\ c_index > Len(providers_config)
    /\ c_response' = [statusCode |-> 200,
                      providers |-> dict_keys(comparison_results),
                      results |-> comparison_results,
                      summary |-> calculate_comparison_metrics(comparison_results)]
    /\ c_pc' = "done"
    /\ UNCHANGED <<o_vars, providers_config, c_index, comparison_results, n_vars, t_vars, p_vars,
                   g_vars, h_vars>>

\* ------------------------------------ provider manager and the v2 parser
\* AIProviderManager._get_default_model
get_default_model(provider) ==
    CASE provider = "anthropic" -> "claude-3-5-sonnet-20241022"
      [] provider = "bedrock" -> "anthropic.claude-3-5-sonnet-20241022-v2:0"
      [] OTHER -> ""

\* The providers _initialize_providers can register.
ManagerProviders == {"anthropic", "bedrock"}

\* The provider names a configuration can ask for.
RequestedProviders == ManagerProviders \cup {"openai"}

\* No fallback provider configured.
NoProvider == ""

\* The dict a provider's generate returns: its content on success, the
\* message of the exception it caught otherwise.
provider_result(provider, model, success, error) == [provider |-> provider, model |-> model, success |-> success, error |-> error, used_fallback |-> FALSE, original_provider |-> ""]

\* result["used_fallback"] = True; result["original_provider"] = config.provider
as_fallback(result, original_provider) == [result EXCEPT !.used_fallback = TRUE, !.original_provider = original_provider]

\* The dict of the last return of AIProviderManager.generate.
no_providers_result == provider_result("none", "none", FALSE, "No AI providers available")

fallback_available == fallback_provider # NoProvider /\ fallback_provider \in g_providers

\* One call of a provider's generate, as the log keeps it.
call_record(provider, success) == [provider |-> provider, success |-> success]

NoResponse == provider_result("", "", FALSE, "")

NoAnalysis == [ai_provider |-> "", ai_model |-> ""]

GenerateIdle ==
    /\ g_pc = "idle"
    /\ g_providers = {}
    /\ fallback_provider = NoProvider
    /\ g_config = [provider |-> "", model |-> ""]
    /\ g_calls = <<>>
    /\ ai_response = NoResponse
    /\ analysis = NoAnalysis

\* generate: config.provider is registered, its generate is awaited.
GenerateCallsRequested ==
    /\ g_pc = "call"
    /\ g_config.provider \in g_providers
    /\ g_pc' = "primary"
    /\ UNCHANGED <<o_vars, g_providers, fallback_provider, g_config, g_calls, ai_response, analysis,
                   n_vars, t_vars, p_vars, c_vars, h_vars>>

\* generate: config.provider is not registered and the fallback is awaited.
GenerateCallsFallback ==
    /\ g_pc = "call"
    /\ g_config.provider \notin g_providers
    /\ fallback_available
    /\ g_pc' = "fallback"
    /\ UNCHANGED <<o_vars, g_providers, fallback_provider, g_config, g_calls, ai_response, analysis,
                   n_vars, t_vars, p_vars, c_vars, h_vars>>

\* generate: neither is registered.
GenerateNoProviders ==
    /\ g_pc = "call"
    /\ g_config.provider \notin g_providers
    /\ ~fallback_available
    /\ ai_response' = no_providers_result
    /\ g_pc' = "generated"
    /\ UNCHANGED <<o_vars, g_providers, fallback_provider, g_config, g_calls, analysis,
                   n_vars, t_vars, p_vars, c_vars, h_vars>>

\* The requested provider's generate gives success True: generate returns it.
RequestedSucceeds ==
    /\ g_pc = "primary"
    /\ g_calls' = Append(g_calls, call_record(g_config.provider, TRUE))
    /\ ai_response' = provider_result(g_config.provider, g_config.model, TRUE, "")
    /\ g_pc' = "generated"
    /\ UNCHANGED <<o_vars, g_providers, fallback_provider, g_config, analysis,
                   n_vars, t_vars, p_vars, c_vars, h_vars>>

\* The requested provider's generate gives success False: generate goes on to
\* the fallback provider, or returns the "none" dict when there is none.
RequestedFails ==
    /\ g_pc = "primary"
    /\ g_calls' = Append(g_calls, call_record(g_config.provider, FALSE))
    /\ IF fallback_available
       THEN g_pc' = "fallback" /\ UNCHANGED ai_response
       ELSE g_pc' = "generated" /\ ai_response' = no_providers_result
    /\ UNCHANGED <<o_vars, g_providers, fallback_provider, g_config, analysis,
                   n_vars, t_vars, p_vars, c_vars, h_vars>>

\* The fallback provider's generate returns: generate marks and returns it.
FallbackReturns ==
    /\ g_pc = "fallback"
    /\ \E success \in BOOLEAN, error \in AIErrors :
           /\ g_calls' = Append(g_calls, call_record(fallback_provider, success))
           /\ ai_response' =
                  as_fallback(provider_result(fallback_provider,
                                              get_default_model(fallback_provider), success,
                                              IF success THEN "" ELSE error),
                              g_config.provider)
    /\ g_pc' = "generated"
    /\ UNCHANGED <<o_vars, g_providers, fallback_provider, g_config, analysis,
                   n_vars, t_vars, p_vars, c_vars, h_vars>>

\* parse_instagram_export after generate: the parsed analysis of the response,
\* or the rule-based analysis when the response has success False.
analysis_of(response) ==
    IF response.success
    THEN [ai_provider |-> response.provider, ai_model |-> response.model]
    ELSE [ai_provider |-> "fallback", ai_model |-> "rule_based"]

ParseReturns ==
    /\ g_pc = "generated"
    /\ analysis' = analysis_of(ai_response)
    /\ g_pc' = "done"
    /\ UNCHANGED <<o_vars, g_providers, fallback_provider, g_config, g_calls, ai_response,
                   n_vars, t_vars, p_vars, c_vars, h_vars>>

\* ------------------------------------------------------ the Lambda handler
\* The status the content record has when the agent is invoked.
InitialStatuses == {"uploaded", "processing"}

HandlerIdle ==
    /\ h_pc = "idle"
    /\ ai_error = ""
    /\ content_status = "uploaded"
    /\ save_calls = 0
    /\ h_outcome = NoOutcome

\* What save_analysis_result can meet: nothing, an error of update_item, or an
\* error of put_object (after update_item wrote the status).
SaveOutcomes == {"saved", "update_item_error", "put_object_error"}

\* raise Exception(f"DEVELOPMENT MODE - ANALYSIS FAILED: {str(e)}") (the
\* message begins with an alert sign)
HandlerFailedMessage(message) == "DEVELOPMENT MODE - ANALYSIS FAILED: " \o message

\* The object is downloaded and parse_multi_type_instagram_export is called.
HandlerStarts ==
    /\ h_pc = "call"
    /\ h_pc' = "analysis"
    /\ p_pc' = "call"
    /\ UNCHANGED <<o_vars, data_types, raw_data, debug_mode, total_items, sample_size_per_type,
                   all_posts, p_outcome, ai_error, content_status, save_calls, h_outcome,
                   n_vars, t_vars, c_vars, g_vars>>

\* The analysis returned: save_analysis_result is called and the handler
\* answers 200 when it gives True, 500 otherwise.
HandlerSaves ==
    /\ h_pc = "analysis"
    /\ p_pc = "done"
    /\ save_calls' = save_calls + 1
    /\ \E outcome \in SaveOutcomes :
           /\ content_status' =
                  IF outcome = "update_item_error" THEN content_status ELSE "completed"
           /\ h_outcome' =
                  IF outcome = "saved"
                  THEN Returned([statusCode |-> 200,
                                 message |-> "Instagram analysis completed successfully"])
                  ELSE Returned([statusCode |-> 500,
                                 message |-> "Failed to save analysis results"])
    /\ h_pc' = "returned"
    /\ UNCHANGED <<o_vars, ai_error, p_vars, n_vars, t_vars, c_vars, g_vars>>

\* The except block of the handler: the status update is tried (its own error
\* is swallowed) and the exception is raised again.
HandlerExcept(message) ==
    /\ \E update_item_ok \in BOOLEAN :
           content_status' = IF update_item_ok THEN "failed" ELSE content_status
    /\ h_outcome' = Raised("Exception", HandlerFailedMessage(message))
    /\ h_pc' = "raised"
    /\ UNCHANGED <<o_vars, ai_error, save_calls, p_vars, n_vars, t_vars, c_vars, g_vars>>

\* parse_multi_type_instagram_export raised.
HandlerAnalysisFailed ==
    /\ h_pc = "analysis"
    /\ p_pc = "raised"
    /\ HandlerExcept(p_outcome.message)

\* get_object raised.
HandlerDownloadFailed ==
    /\ h_pc = "call"
    /\ HandlerExcept("NoSuchKey")

\* ------------------------------------------------------------ the prompt
\* posts[:15], caption[:100] and hashtags[:3] of _build_multi_type_analysis_prompt.
PostsShown == 15
CaptionChars == 100
TagsShown == 3

\* sequence[:n]
Prefix(sequence, n) == SubSeq(sequence, 1, Min(Len(sequence), n))

\* Post lists of every length up to MaxPosts, captions of up to MaxCaption
\* characters and up to MaxTags hashtags.
MaxPosts == 17
MaxCaption == 102
MaxTags == 4

\* A caption of n characters; the characters tell the positions apart.
CaptionOf(n) == [j \in 1..n |-> j % 10]

HashtagsOf(n) == [j \in 1..n |-> <<"#tag", j>>]

InteractionTypes == <<"saved", "liked", "commented">>

CaptionLengths == {0, CaptionChars - 1, CaptionChars, CaptionChars + 1, MaxCaption}

\* Post k of a list: its author is numbered, its caption, hashtags and
\* interaction type vary with k around the values chosen for the list.
PromptPost(k, caption_length, tags, types) ==
    [author |-> <<"user", k>>,
     caption |-> CaptionOf(IF k % 2 = 1 THEN caption_length ELSE CaptionChars + 1 - (k % 3)),
     hashtags |-> HashtagsOf((tags + k) % (MaxTags + 1)),
     media_type |-> IF k % 2 = 1 THEN "photo" ELSE "reel",
     interaction_type |-> InteractionTypes[((k - 1) % types) + 1]]

PromptPostLists ==
    {[k \in 1..n |-> PromptPost(k, caption_length, tags, types)] :
        n \in 0..MaxPosts, caption_length \in CaptionLengths, tags \in 0..MaxTags,
        types \in 1..Len(InteractionTypes)}

ExportInfos == {<<>>, <<[key |-> "extractedAt", value |-> "2025-01-01T00:00:00"]>>}

\* One entry of the list joined into posts_summary (lines 650-654).
post_line(post) ==
    [kind |-> "post",
     author |-> post.author,
     caption |-> Prefix(post.caption, CaptionChars),
     ellipsis |-> IF Len(post.caption) > CaptionChars THEN "..." ELSE "",
     tags |-> Prefix(post.hashtags, TagsShown),
     media_type |-> post.media_type,
     type |-> post.interaction_type]

\* f"\n... and {len(posts) - 15} more posts"
more_posts_line(posts) == [kind |-> "more", n |-> Len(posts) - PostsShown]

\* The line added from the fifteenth post on.
posts_summary_from_limit(posts) ==
    [k \in 1..Len(Prefix(posts, PostsShown)) |-> post_line(posts[k])]
    \o (IF Len(posts) >= PostsShown THEN <<more_posts_line(posts)>> ELSE <<>>)

\* posts_summary: the lines of posts[:15], then the line of the rest (lines 650-657).
posts_summary(posts) ==
    [k \in 1..Len(Prefix(posts, PostsShown)) |-> post_line(posts[k])]
    \o (IF Len(posts) > PostsShown THEN <<more_posts_line(posts)>> ELSE <<>>)

\* type_counts.get(interaction_type, 0)
count_of(counts, type) == IF dict_has(counts, type) THEN dict_get(counts, type) ELSE 0

\* for post in posts: type_counts[interaction_type] = ... + 1 (lines 660-663)
RECURSIVE type_counts(_, _, _)
type_counts(posts, k, counts) ==
    IF k > Len(posts) THEN counts
    ELSE type_counts(posts, k + 1,
             dict_set(counts, posts[k].interaction_type,
                      count_of(counts, posts[k].interaction_type) + 1))

\* The prompt, by its parts (lines 667-693).
build_multi_type_analysis_prompt(posts, types, export_info) ==
    [data_types |-> types,
     total_items |-> Len(posts),
     export_date |-> IF dict_has(export_info, "extractedAt")
                     THEN dict_get(export_info, "extractedAt") ELSE "Unknown",
     type_summary |-> type_counts(posts, 1, <<>>),
     sample_content |-> posts_summary(posts),
     data_type_count |-> Len(types)]

PromptIdle ==
    /\ b_pc = "idle"
    /\ b_posts = <<>>
    /\ b_data_types = <<>>
    /\ b_export_info = <<>>
    /\ b_prompt = NoOutcome

BuildPrompt ==
    /\ b_pc = "call"
    /\ b_prompt' = build_multi_type_analysis_prompt(b_posts, b_data_types, b_export_info)
    /\ b_pc' = "done"
    /\ UNCHANGED <<b_posts, b_data_types, b_export_info, n_vars, t_vars, p_vars, c_vars,
                   g_vars, h_vars, r_vars, a_vars>>

\* --------------------------------------------------------------- reprocess
MaxClock == 2
MaxCalls == 3

\* body.get('temperature', 0.7)
DefaultTemperature == "0.7"

Float(value) == [type |-> "float", value |-> value]

\* Decimal(str(temperature))
Decimal(number) == [type |-> "Decimal", value |-> number.value]

\* f"{model_provider}#{model_name}#{timestamp}" with timestamp = int(time.time())
generate_analysis_id(model_provider, model_name, now) == <<model_provider, model_name, now>>

\* mock_analysis (lines 260-268).
mock_analysis(model_provider, model_name, temperature) ==
    [summary |-> <<"Mock analysis using", model_provider, model_name>>,
     model_info |-> [provider |-> model_provider, model |-> model_name,
                     temperature |-> Decimal(temperature)]]

\* json.dumps raises TypeError on a Decimal.
json_serializable(value) == value.model_info.temperature.type # "Decimal"

\* The requests: content c1 is in CONTENT_TABLE with an s3Key, c2 is not; a
\* request may lack its modelProvider.
ReprocessRequests ==
    [content_id : {"c1", "c2"}, model_provider : {"", "nova", "anthropic"},
     model_name : {"us.amazon.nova-micro-v1:0"}, force : BOOLEAN]

ContentTable == {"c1"}

Response(statusCode, message, cached) == [statusCode |-> statusCode, message |-> message, cached |-> cached]

NoRequest == [content_id |-> "", model_provider |-> "", model_name |-> "", force |-> FALSE]

\* analysis_table.get_item(Key={'contentId': ..., 'analysisId': ...})
get_item(table, content_id, analysis_id) ==
    {item \in table : item.contentId = content_id /\ item.analysisId = analysis_id}

\* analysis_table.put_item(Item=analysis_item): an item of the same key is replaced.
put_item(table, item) ==
    (table \ get_item(table, item.contentId, item.analysisId)) \cup {item}

\* The cache check answers (lines 174-195): the item exists and the body with
\* its analysis can be dumped; an exception of the check is printed and the
\* request is processed.
cache_answers(table, request, analysis_id) ==
    /\ ~request.force
    /\ \E item \in get_item(table, request.content_id, analysis_id) :
           json_serializable(item.analysis)

analysis_item(request, analysis_id) ==
    [contentId |-> request.content_id,
     analysisId |-> analysis_id,
     modelProvider |-> request.model_provider,
     modelName |-> request.model_name,
     analysis |-> mock_analysis(request.model_provider, request.model_name,
                                Float(DefaultTemperature))]

job_item(request, analysis_id) ==
    [contentId |-> request.content_id, analysisId |-> analysis_id, status |-> "completed"]

\* The return of line 311: json.dumps of a body with mock_analysis; its
\* TypeError is caught by the handler's except (lines 322-328).
processed_response(item) ==
    IF json_serializable(item.analysis)
    THEN Response(200, "Reprocessing completed", FALSE)
    ELSE Response(500, "Internal server error", FALSE)

ReprocessIdle ==
    /\ r_now = 0
    /\ analysis_table = {}
    /\ jobs_table = <<>>
    /\ r_calls = 0
    /\ r_request = NoRequest
    /\ r_response = NoOutcome

\* The request is answered before anything is written.
ReprocessAnswers(request, response) ==
    /\ r_response' = response
    /\ UNCHANGED <<analysis_table, jobs_table>>

\* The job and the analysis item are written and the response is built.
ReprocessProcesses(request, analysis_id) ==
    /\ jobs_table' = Append(jobs_table, job_item(request, analysis_id))
    /\ analysis_table' = put_item(analysis_table, analysis_item(request, analysis_id))
    /\ r_response' = processed_response(analysis_item(request, analysis_id))

\* handler(event, context) of reprocess.py for one POST request.
Reprocess ==
    /\ r_calls < MaxCalls
    /\ r_calls' = r_calls + 1
    /\ \E request \in ReprocessRequests :
           /\ r_request' = request
           /\ IF request.model_provider = ""
              THEN ReprocessAnswers(request, Response(400, "Model provider and name required", FALSE))
              ELSE IF request.content_id \notin ContentTable
              THEN ReprocessAnswers(request, Response(404, "Content not found", FALSE))
              ELSE IF cache_answers(analysis_table, request,
                          generate_analysis_id(request.model_provider, request.model_name, r_now))
              THEN ReprocessAnswers(request, Response(200, "Analysis already exists", TRUE))
              ELSE \E get_object_ok \in BOOLEAN :
                       IF get_object_ok
                       THEN ReprocessProcesses(request,
                                generate_analysis_id(request.model_provider,
                                                     request.model_name, r_now))
                       ELSE ReprocessAnswers(request,
                                Response(500, "Failed to retrieve raw content", FALSE))
    /\ UNCHANGED <<r_now, n_vars, t_vars, p_vars, c_vars, g_vars, h_vars, b_vars, a_vars>>

\* A second passes.
ClockTicks ==
    /\ r_now < MaxClock
    /\ r_now' = r_now + 1
    /\ UNCHANGED <<analysis_table, jobs_table, r_calls, r_request, r_response,
                   n_vars, t_vars, p_vars, c_vars, g_vars, h_vars, b_vars, a_vars>>

\* -------------------------------------------------------- content analysis
\* The object of an upload: content_data['type'], exportInfo.dataTypes and the
\* sections of the data types at its root.
ContentData(type, types, sections) ==
    [type |-> type, exportInfo |-> [dataTypes |-> types], sections |-> sections]

\* The sections of a stored export: absent, empty, a few items, more than any cap.
ExportSections ==
    {AbsentSection, Section("dict", TRUE, 0), Section("dict", TRUE, 3), Section("dict", TRUE, 150)}

ContentDatas ==
    UNION {{ContentData(type, types, sections) :
               sections \in RawDatas(types, ExportSections),
               type \in {"instagram_export", "unknown"}} :
           types \in SeqsUpTo({"saved_posts", "liked_posts", "comments"}, MaxTypes)}

\* if data_type in content_data: combined_content['combined_data'][data_type] = ...
combined_data(content) ==
    [name \in DataTypeNames |->
        IF name \in Range(content.exportInfo.dataTypes) THEN content.sections[name]
        ELSE AbsentSection]

\* combined_content = {'combined_data': {...}} (lines 112-124)
combined_content(content) == <<[key |-> "combined_data", value |-> combined_data(content)]>>

\* raw_data[data_type] for the data types the parser looks up at the root of
\* its raw_data (instagram_parser.py lines 219-278).
root_sections(mapping) ==
    [name \in DataTypeNames |->
        IF dict_has(mapping, name) THEN dict_get(mapping, name) ELSE AbsentSection]

ContentAnalysisFailedMessage(message) ==
    "DEVELOPMENT MODE - CONTENT ANALYSIS FAILED: " \o message

ContentAnalysisIdle ==
    /\ a_pc = "idle"
    /\ content_data = ContentData("unknown", <<>>, [name \in DataTypeNames |-> AbsentSection])
    /\ a_status = "uploaded"
    /\ a_outcome = NoOutcome

\* The record is set to 'processing' and the consolidated export is handed to
\* parse_multi_type_instagram_export(combined_content, export_info).
ContentAnalysisStarts ==
    /\ a_pc = "call"
    /\ content_data.type = "instagram_export"
    /\ a_status' = "processing"
    /\ data_types' = content_data.exportInfo.dataTypes
    /\ raw_data' = root_sections(combined_content(content_data))
    /\ debug_mode' \in BOOLEAN
    /\ p_pc' = "call"
    /\ a_pc' = "analysis"
    /\ UNCHANGED <<content_data, a_outcome, total_items, sample_size_per_type, all_posts,
                   p_outcome, n_vars, t_vars, c_vars, g_vars, h_vars, b_vars, r_vars>>

\* A content type no agent handles: the record becomes 'unknown_type'.
ContentAnalysisUnknownType ==
    /\ a_pc = "call"
    /\ content_data.type = "unknown"
    /\ a_status' = "unknown_type"
    /\ a_outcome' = Returned([statusCode |-> 200, message |-> "Content analysis completed"])
    /\ a_pc' = "returned"
    /\ UNCHANGED <<content_data, n_vars, t_vars, p_vars, c_vars, g_vars, h_vars, b_vars, r_vars>>

\* The analysis returned: save_analysis_result is called, its result is not
\* read and the handler answers 200.
ContentAnalysisSaves ==
    /\ a_pc = "analysis"
    /\ p_pc = "done"
    /\ \E outcome \in SaveOutcomes :
           a_status' = IF outcome = "update_item_error" THEN a_status ELSE "completed"
    /\ a_outcome' = Returned([statusCode |-> 200, message |-> "Content analysis completed"])
    /\ a_pc' = "returned"
    /\ UNCHANGED <<content_data, n_vars, t_vars, p_vars, c_vars, g_vars, h_vars, b_vars, r_vars>>

\* The analysis raised: the handler raises again.
ContentAnalysisRaises ==
    /\ a_pc = "analysis"
    /\ p_pc = "raised"
    /\ a_outcome' = Raised("Exception", ContentAnalysisFailedMessage(p_outcome.message))
    /\ a_pc' = "raised"
    /\ UNCHANGED <<content_data, a_status, n_vars, t_vars, p_vars, c_vars, g_vars, h_vars,
                   b_vars, r_vars>>

OthersIdle == PromptIdle /\ ReprocessIdle /\ ContentAnalysisIdle

\* ---------------------------------------------------------- specifications
InitNormalizer ==
    /\ n_pc = "call"
    /\ raw_response \in RawResponses
    /\ n_outcome = NoOutcome
    /\ n_content_text = NoOutcome
    /\ try_outcome = NoOutcome
    /\ ThresholdsIdle
    /\ ParserIdle
    /\ ComparisonIdle
    /\ GenerateIdle
    /\ HandlerIdle
    /\ OthersIdle

NextNormalizer == NormalizeResponse

SpecNormalizer == InitNormalizer /\ [][NextNormalizer]_vars

InitThresholds ==
    /\ t_pc = "call"
    /\ percentage \in 0..MaxPct
    /\ evidence = ""
    /\ goal_potential = ""
    /\ NormalizerIdle
    /\ ParserIdle
    /\ ComparisonIdle
    /\ GenerateIdle
    /\ HandlerIdle
    /\ OthersIdle

NextThresholds == DetermineLevels

SpecThresholds == InitThresholds /\ [][NextThresholds]_vars

InitSampling ==
    /\ p_pc = "call"
    /\ \E input \in ParserInputs :
           /\ data_types = input.data_types
           /\ raw_data = input.raw_data
           /\ debug_mode = input.debug_mode
    /\ total_items = 0
    /\ sample_size_per_type = 0
    /\ all_posts = <<>>
    /\ p_outcome = NoOutcome
    /\ NormalizerIdle
    /\ ThresholdsIdle
    /\ ComparisonIdle
    /\ GenerateIdle
    /\ HandlerIdle
    /\ OthersIdle

NextSampling == ExtractPosts \/ ExtractRaises \/ AnalysisReturns \/ AnalysisFails

SpecSampling == InitSampling /\ [][NextSampling]_vars

InitComparison ==
    /\ c_pc = "call"
    /\ providers_config \in SeqsUpTo(ProviderConfigs, MaxConfigs)
    /\ c_index = 0
    /\ comparison_results = <<>>
    /\ c_response = [statusCode |-> 0]
    /\ NormalizerIdle
    /\ ThresholdsIdle
    /\ ParserIdle
    /\ GenerateIdle
    /\ HandlerIdle
    /\ OthersIdle

NextComparison ==
    \/ CompareStart
    \/ CompareContentNotFound
    \/ ArmReturns
    \/ ArmRaises
    \/ CompareRaises
    \/ CompareResponds

SpecComparison == InitComparison /\ [][NextComparison]_vars

InitGenerate ==
    /\ g_pc = "call"
    /\ g_providers \in SUBSET ManagerProviders
    /\ fallback_provider \in ManagerProviders
    /\ g_config \in {[provider |-> provider, model |-> get_default_model(provider)] :
                        provider \in RequestedProviders}
    /\ g_calls = <<>>
    /\ ai_response = NoResponse
    /\ analysis = NoAnalysis
    /\ NormalizerIdle
    /\ ThresholdsIdle
    /\ ParserIdle
    /\ ComparisonIdle
    /\ HandlerIdle
    /\ OthersIdle

NextGenerate ==
    \/ GenerateCallsRequested
    \/ GenerateCallsFallback
    \/ GenerateNoProviders
    \/ RequestedSucceeds
    \/ RequestedFails
    \/ FallbackReturns
    \/ ParseReturns

SpecGenerate == InitGenerate /\ [][NextGenerate]_vars

InitHandler ==
    /\ h_pc = "call"
    /\ ai_error = ""
    /\ content_status \in InitialStatuses
    /\ save_calls = 0
    /\ h_outcome = NoOutcome
    /\ p_pc = "idle"
    /\ \E input \in MalformedItemInputs :
           /\ data_types = input.data_types
           /\ raw_data = input.raw_data
           /\ debug_mode = input.debug_mode
    /\ total_items = 0
    /\ sample_size_per_type = 0
    /\ all_posts = <<>>
    /\ p_outcome = NoOutcome
    /\ NormalizerIdle
    /\ ThresholdsIdle
    /\ ComparisonIdle
    /\ GenerateIdle
    /\ OthersIdle

NextHandler ==
    \/ HandlerStarts
    \/ HandlerDownloadFailed
    \/ ExtractPosts
    \/ ExtractRaises
    \/ AnalysisReturns
    \/ AnalysisFails
    \/ HandlerSaves
    \/ HandlerAnalysisFailed

SpecHandler == InitHandler /\ [][NextHandler]_vars

InitPrompt ==
    /\ b_pc = "call"
    /\ b_posts \in PromptPostLists
    /\ b_data_types \in SeqsUpTo({"saved_posts", "liked_posts"}, 1)
    /\ b_export_info \in ExportInfos
    /\ b_prompt = NoOutcome
    /\ NormalizerIdle
    /\ ThresholdsIdle
    /\ ParserIdle
    /\ ComparisonIdle
    /\ GenerateIdle
    /\ HandlerIdle
    /\ ReprocessIdle
    /\ ContentAnalysisIdle

NextPrompt == BuildPrompt

SpecPrompt == InitPrompt /\ [][NextPrompt]_vars

InitReprocess ==
    /\ ReprocessIdle
    /\ NormalizerIdle
    /\ ThresholdsIdle
    /\ ParserIdle
    /\ ComparisonIdle
    /\ GenerateIdle
    /\ HandlerIdle
    /\ PromptIdle
    /\ ContentAnalysisIdle

NextReprocess == Reprocess \/ ClockTicks

SpecReprocess == InitReprocess /\ [][NextReprocess]_vars

InitContentAnalysis ==
    /\ a_pc = "call"
    /\ content_data \in ContentDatas
    /\ a_status = "uploaded"
    /\ a_outcome = NoOutcome
    /\ NormalizerIdle
    /\ ThresholdsIdle
    /\ ParserIdle
    /\ ComparisonIdle
    /\ GenerateIdle
    /\ HandlerIdle
    /\ PromptIdle
    /\ ReprocessIdle

NextContentAnalysis ==
    \/ ContentAnalysisStarts
    \/ ContentAnalysisUnknownType
    \/ ExtractPosts
    \/ ExtractRaises
    \/ AnalysisReturns
    \/ AnalysisFails
    \/ ContentAnalysisSaves
    \/ ContentAnalysisRaises

SpecContentAnalysis == InitContentAnalysis /\ [][NextContentAnalysis]_vars

\* ------------------------------------------------- properties: normalizer
NormalizerReturned == n_pc = "done" /\ n_outcome.status = "returned"

GoalAreasOfResult == n_outcome.result.goal_areas

\* The content is a text the parsers read.
ContentIsText == raw_response.content.kind \in {"plain", "dict", "literal_not_dict"}

TermsOfGoals(goals) == [k \in 1..Len(goals) |-> goals[k].term]

\* C1: normalize_response never raises: whatever the content, the model family
\* and the passthrough metadata fields are, the call ends with a returned
\* result, an inner exception being converted into the fallback result.
C1_NeverRaises == n_pc = "done" => n_outcome.status = "returned"

\* C2: for every content and every model family the returned result has at
\* least one goal area.
C2_AtLeastOneGoalArea == NormalizerReturned => Len(GoalAreasOfResult) >= 1

\* C3: every goal area of every returned result has exactly three goals, one
\* for each of the terms 30-day, 90-day and 1-year.
C3_ThreeGoalsOnePerTerm ==
    NormalizerReturned =>
        \A i \in 1..Len(GoalAreasOfResult) :
            /\ Len(GoalAreasOfResult[i].goals) = 3
            /\ Range(TermsOfGoals(GoalAreasOfResult[i].goals)) = {"30-day", "90-day", "1-year"}

\* C4: in every returned result, the fallback result included, the evidence
\* level of a goal area is the threshold function of its own percentage
\* (>= 40 HIGH, >= 20 MEDIUM, else LOW) and the goal potential of an interest
\* entry is the threshold function of its own percentage (>= 30 High, >= 15
\* Medium, else Low).
C4_LevelsFollowPercentage ==
    NormalizerReturned =>
        /\ \A i \in 1..Len(GoalAreasOfResult) :
               LET area == GoalAreasOfResult[i]
               IN  area.evidence = (IF area.percentage >= 40 THEN "HIGH"
                                    ELSE IF area.percentage >= 20 THEN "MEDIUM" ELSE "LOW")
        /\ \A i \in 1..Len(n_outcome.result.interest_distribution) :
               LET interest == n_outcome.result.interest_distribution[i]
               IN  interest.goal_potential = (IF interest.percentage >= 30 THEN "High"
                                              ELSE IF interest.percentage >= 15 THEN "Medium"
                                              ELSE "Low")

\* C5: _determine_evidence_level gives HIGH iff p >= 40, MEDIUM iff 20 <= p < 40
\* and LOW iff p < 20; _determine_goal_potential gives High iff p >= 30, Medium
\* iff 15 <= p < 30 and Low iff p < 15; so for 30 <= p < 40 the evidence is
\* MEDIUM while the potential is High, and for 15 <= p < 20 the evidence is LOW
\* while the potential is Medium.
C5_Thresholds ==
    t_pc = "done" =>
        /\ evidence \in {"HIGH", "MEDIUM", "LOW"}
        /\ evidence = "HIGH" <=> percentage >= 40
        /\ evidence = "MEDIUM" <=> (20 <= percentage /\ percentage < 40)
        /\ evidence = "LOW" <=> percentage < 20
        /\ goal_potential \in {"High", "Medium", "Low"}
        /\ goal_potential = "High" <=> percentage >= 30
        /\ goal_potential = "Medium" <=> (15 <= percentage /\ percentage < 30)
        /\ goal_potential = "Low" <=> percentage < 15
        /\ (30 <= percentage /\ percentage < 40) =>
               (evidence = "MEDIUM" /\ goal_potential = "High")
        /\ (15 <= percentage /\ percentage < 20) =>
               (evidence = "LOW" /\ goal_potential = "Medium")

\* A percentage between the two upper thresholds has been classified.
C5_Witness ==
    /\ t_pc = "done"
    /\ percentage = 35
    /\ evidence = "MEDIUM"
    /\ goal_potential = "High"

\* C6: every goal area percentage of a returned result lies in [0, 100],
\* whatever numbers stand before a '%' in the text or in a section title.
C6_PercentageInRange ==
    NormalizerReturned =>
        \A i \in 1..Len(GoalAreasOfResult) :
            /\ GoalAreasOfResult[i].percentage >= 0
            /\ GoalAreasOfResult[i].percentage <= 100

\* C7: for every model family, a text in which no goal-category keyword occurs
\* as a whole word gives exactly one goal area: 'Personal Development' with
\* percentage 100 and three goals for the terms 30-day, 90-day and 1-year.
C7_GenericAreaWithoutKeywords ==
    (/\ NormalizerReturned
     /\ ContentIsText
     /\ \A c \in 1..Len(GOAL_CATEGORIES) :
            ~HasWord(raw_response.content.text, GOAL_CATEGORIES[c].key))
    => /\ Len(GoalAreasOfResult) = 1
       /\ GoalAreasOfResult[1].name = "Personal Development"
       /\ GoalAreasOfResult[1].percentage = 100
       /\ TermsOfGoals(GoalAreasOfResult[1].goals) = <<"30-day", "90-day", "1-year">>

\* --------------------------------------------------- properties: sampling
\* The items a listed data type has in the export: the length of its list.
Available(data_type, section) ==
    IF data_type \in KnownDataTypes /\ section.shape = "list" THEN section.n
    ELSE IF data_type \in KnownDataTypes /\ section.shape = "dict" /\ section.key THEN section.n
    ELSE 0

AvailableAt(i) == Available(data_types[i], raw_data[data_types[i]])

RECURSIVE SumTo(_, _)
SumTo(f, n) == IF n = 0 THEN 0 ELSE f[n] + SumTo(f, n - 1)

AvailableTotal == SumTo([i \in 1..Len(data_types) |-> AvailableAt(i)], Len(data_types))

\* The cap as stated: a function of the total and of the number of data types.
StatedCap(total, n) ==
    IF total = 0 THEN 100
    ELSE IF total <= 20 THEN Max(10, total \div n)
    ELSE IF total <= 100 THEN 20
    ELSE IF total <= 500 THEN 50
    ELSE 100

Extracted == p_pc \in {"ai_call", "done"}

\* C8: in debug mode the cap per data type is a function of the total of the
\* item counts over the listed data types and of their number n: 100 for 0,
\* max(10, total // n) for 1..20, 20 for 21..100, 50 for 101..500 and 100 from
\* 501 on; the metadata reports that cap.
C8_DebugCap ==
    /\ (Extracted /\ debug_mode) =>
           /\ total_items = AvailableTotal
           /\ sample_size_per_type = StatedCap(AvailableTotal, Len(data_types))
    /\ (p_pc = "done" /\ debug_mode) =>
           p_outcome.result.metadata.sample_size_per_type
               = StatedCap(AvailableTotal, Len(data_types))

\* An export of 500 items over two data types has been analysed with cap 50.
C8_Witness ==
    /\ p_pc = "done"
    /\ debug_mode
    /\ Len(data_types) = 2
    /\ AvailableTotal = 500
    /\ p_outcome.result.metadata.sample_size_per_type = 50

PostsOf(data_type) ==
    Cardinality({k \in 1..Len(all_posts) :
                    all_posts[k].interaction_type = InteractionType(data_type)})

Occurrences(data_type) == Cardinality({i \in 1..Len(data_types) : data_types[i] = data_type})

\* C9: when the export is analysed without error, each listed data type
\* contributes min(available, cap) posts per occurrence in the list, the
\* metadata gives total_items_available as the sum of the available counts and
\* total_items_processed = sampled_items_analyzed as the sum of the sampled
\* counts, and total_items_processed is at most total_items_available and at
\* most (number of data types) * sample_size_per_type.
C9_SamplingCounts ==
    p_pc = "done" =>
        LET metadata == p_outcome.result.metadata
            cap == metadata.sample_size_per_type
            sampled == [i \in 1..Len(data_types) |-> Min(AvailableAt(i), cap)]
        IN  /\ \A i \in 1..Len(data_types) :
                   data_types[i] \in KnownDataTypes =>
                       PostsOf(data_types[i])
                           = Occurrences(data_types[i]) * Min(AvailableAt(i), cap)
            /\ metadata.total_items_available = AvailableTotal
            /\ metadata.total_items_processed = SumTo(sampled, Len(data_types))
            /\ metadata.sampled_items_analyzed = metadata.total_items_processed
            /\ metadata.total_items_processed <= metadata.total_items_available
            /\ metadata.total_items_processed <= Len(data_types) * cap

\* A data type with more items than the cap has been cut to the cap.
C9_Witness ==
    /\ p_pc = "done"
    /\ \E i \in 1..Len(data_types) :
           /\ AvailableAt(i) > p_outcome.result.metadata.sample_size_per_type
           /\ PostsOf(data_types[i]) = p_outcome.result.metadata.sample_size_per_type
    /\ p_outcome.result.metadata.total_items_processed
           < p_outcome.result.metadata.total_items_available

\* Every listed data type is absent from the export or a mapping.
SectionsWellFormed ==
    \A i \in 1..Len(data_types) : raw_data[data_types[i]].shape \in {"absent", "dict"}

\* C10: sampling has no error condition: for every list of data types, the
\* empty list and lists of empty or absent data types included, the call gets
\* past sampling and extraction without raising, and with nothing available
\* it reports zero counts and (in debug mode) the cap 100.
C10_SamplingNeverRaises ==
    /\ (p_pc = "raised" /\ SectionsWellFormed) =>
           (p_outcome.exception = "Exception"
            /\ p_outcome.message \in {AnalysisFailedMessage(error) : error \in AIErrors})
    /\ (p_pc = "done" /\ debug_mode /\ AvailableTotal = 0) =>
           /\ p_outcome.result.metadata.total_items_available = 0
           /\ p_outcome.result.metadata.total_items_processed = 0
           /\ p_outcome.result.metadata.sample_size_per_type = 100

\* C11: the cap per data type is at most 100 for every dataset size and every
\* value of DEBUG_MODE, so no data type contributes more than 100 posts per
\* occurrence in the list.
C11_CapAtMost100 ==
    Extracted =>
        /\ sample_size_per_type <= 100
        /\ \A i \in 1..Len(data_types) :
               data_types[i] \in KnownDataTypes =>
                   PostsOf(data_types[i]) <= Occurrences(data_types[i]) * 100

Metadata == p_outcome.result.metadata

HasMalformedItem ==
    \E i \in 1..Len(data_types) : raw_data[data_types[i]].bad_at # 0

AnalysisFailure ==
    p_outcome.exception = "Exception"
        /\ p_outcome.message \in {AnalysisFailedMessage(error) : error \in AIErrors}

\* C13: a malformed record never aborts the batch: whatever is wrong with it
\* (missing, null or empty nested field, wrong-typed timestamp, not a mapping),
\* no exception leaves the extraction loop, and every other record of the
\* batch still gives its post.
C13_MalformedRecordTolerated ==
    (HasMalformedItem /\ SectionsWellFormed) =>
        /\ p_pc = "raised" => AnalysisFailure
        /\ Extracted =>
               \A i \in 1..Len(data_types) :
                   PostsOf(data_types[i]) >=
                       Occurrences(data_types[i])
                           * (Min(AvailableAt(i), sample_size_per_type) - 1)

\* The section of listed data type i lacks its key or is null.
SectionUnusable(i) ==
    \/ raw_data[data_types[i]].shape = "null"
    \/ raw_data[data_types[i]].shape = "dict" /\ ~raw_data[data_types[i]].key

\* C14: a malformed section never propagates an error: for every data type a
\* section that lacks its key, has a wrong type or is null gives no post and
\* raises nothing, and the other data types are still processed.
C14_MalformedSectionTolerated ==
    (Len(data_types) > 0 /\ ~HasMalformedItem) =>
        /\ p_pc = "raised" => AnalysisFailure
        /\ Extracted =>
               \A i \in 1..Len(data_types) :
                   (data_types[i] \in KnownDataTypes /\ SectionUnusable(i)) =>
                       PostsOf(data_types[i]) = 0

\* C15: no two posts of one batch have the same post_id.
C15_PostIdsUnique ==
    Extracted =>
        \A j, k \in 1..Len(all_posts) :
            j # k => all_posts[j].post_id # all_posts[k].post_id

\* The first part of a post_id names the branch that made the post.
InteractionOfId(post_id) ==
    CASE post_id[1] = "saved" -> "saved"
      [] post_id[1] = "liked" -> "liked"
      [] post_id[1] = "comment" -> "commented"
      [] post_id[1] = "user_post" -> "posted"
      [] post_id[1] = "following" -> "following"

\* C16: every post carries enumerated values only: the interaction_type fixed
\* for its source data type, and a media_type among photo, video, reel,
\* comment, profile and unknown, whatever the raw record holds.
C16_EnumeratedValues ==
    Extracted =>
        \A k \in 1..Len(all_posts) :
            /\ all_posts[k].interaction_type = InteractionOfId(all_posts[k].post_id)
            /\ all_posts[k].interaction_type
                   \in {InteractionType(d) : d \in Range(data_types) \cap KnownDataTypes}
            /\ all_posts[k].media_type
                   \in {"photo", "video", "reel", "comment", "profile", "unknown"}

\* ------------------------------------------ properties: provider comparison
\* The comparison went through its loop and answered.
ComparisonAnswered == c_pc = "done" /\ c_response.statusCode # 404

\* Configuration i of the request has its outcome among the results.
OutcomeRecorded(i) ==
    \E k \in 1..Len(c_response.results) :
        /\ c_response.results[k].value.provider = providers_config[i].provider
        /\ c_response.results[k].value.model = providers_config[i].model

\* C17: in a provider comparison a failing arm never keeps the other arms
\* from running, and the response holds one outcome (success or captured
\* error) for every configuration of the request: no outcome is lost or
\* overwritten, and no arm turns the comparison into an error response.
C17_OneOutcomePerConfiguration ==
    ComparisonAnswered =>
        /\ c_response.statusCode = 200
        /\ Len(c_response.results) = Len(providers_config)
        /\ \A i \in 1..Len(providers_config) : OutcomeRecorded(i)

\* The comparison answered 200 with at least one outcome.
SummaryComputed ==
    c_pc = "done" /\ c_response.statusCode = 200 /\ c_response.results # <<>>

\* The positions of the arms that succeeded.
SuccessfulArms ==
    {k \in 1..Len(c_response.results) : c_response.results[k].value.success}

LatencyOfArm(k) == c_response.results[k].value.latency_ms

RECURSIVE SumOfLatencies(_)
SumOfLatencies(arms) ==
    IF arms = {} THEN 0
    ELSE LatencyOfArm(CHOOSE k \in arms : TRUE)
             + SumOfLatencies(arms \ {CHOOSE k \in arms : TRUE})

Performance == c_response.summary.performance_comparison

\* C18: for every non-empty map of outcomes the summary has providers_tested =
\* the number of outcomes and all_successful = true exactly when every arm
\* succeeded; the latency statistics cover the successful arms only: the
\* fastest provider is a successful arm of least latency, the average is the
\* mean over the successful arms, and performance_comparison is absent when
\* no arm succeeded.
C18_ComparisonMetrics ==
    SummaryComputed =>
        /\ c_response.summary.providers_tested = Len(c_response.results)
        /\ c_response.summary.all_successful
               <=> (SuccessfulArms = 1..Len(c_response.results))
        /\ ("performance_comparison" \in DOMAIN c_response.summary)
               <=> (SuccessfulArms # {})
        /\ SuccessfulArms # {} =>
               /\ \E k \in SuccessfulArms :
                      /\ c_response.results[k].key = Performance.fastest_provider
                      /\ LatencyOfArm(k) = Performance.fastest_time_ms
                      /\ \A j \in SuccessfulArms : LatencyOfArm(k) <= LatencyOfArm(j)
               /\ {Performance.latency_by_provider[j].key :
                       j \in 1..Len(Performance.latency_by_provider)}
                      = {c_response.results[k].key : k \in SuccessfulArms}
               /\ Performance.average_latency_ms
                      = Quotient(SumOfLatencies(SuccessfulArms), Cardinality(SuccessfulArms))

\* A comparison of two arms, one failed and the slower one succeeded.
C18_Witness ==
    /\ SummaryComputed
    /\ Len(c_response.results) = 2
    /\ Cardinality(SuccessfulArms) = 1
    /\ ~c_response.summary.all_successful
    /\ Performance.fastest_time_ms = MaxLatency

\* --------------------------------------------- properties: provider failure
\* The requested provider was called and its generate failed.
RequestedProviderFailed ==
    /\ g_pc = "done"
    /\ Len(g_calls) > 0
    /\ g_calls[1] = call_record(g_config.provider, FALSE)

\* C19: when the requested provider's generate fails, the caller receives that
\* failure: no second call is made (to another provider or to the same one),
\* the failed analysis is not replaced by a result made some other way, and
\* the returned record names the requested provider with success = false.
C19_FailureIsReturned ==
    RequestedProviderFailed =>
        /\ Len(g_calls) = 1
        /\ ai_response.provider = g_config.provider
        /\ ~ai_response.success
        /\ analysis.ai_model # "rule_based"

\* ------------------------------------------------- properties: the handler
\* structured_output_async raised in this run.
AIFailed == ai_error # ""

\* The AI failure leaves parse_multi_type_instagram_export as an exception
\* with the provider's message, nothing is saved and the record is not
\* 'completed'; the handler raises again with that message.
AIFailureIsLoud ==
    /\ p_pc = "raised"
    /\ p_outcome.status = "raised"
    /\ p_outcome.message = "Multi-type Instagram analysis failed: " \o ai_error
    /\ save_calls = 0
    /\ content_status # "completed"
    /\ h_pc \in {"analysis", "raised"}
    /\ h_pc = "raised" =>
           /\ h_outcome.status = "raised"
           /\ h_outcome.message =
                  "DEVELOPMENT MODE - ANALYSIS FAILED: Multi-type Instagram analysis failed: "
                      \o ai_error

FallbackReturned ==
    /\ NormalizerReturned
    /\ try_outcome.status = "raised"

\* C21: when a step of normalize_response raises, the result returned is the
\* fallback result and holds nothing of the partial parse: one goal area (id
\* 'fallback', name 'General Development', evidence MEDIUM), no behavioural
\* pattern, raw_model_output 'Parsing error: ' followed by the message of the
\* exception, and the provider, model and latency_ms of the raw response.
C21_FallbackResult ==
    FallbackReturned =>
        /\ Len(GoalAreasOfResult) = 1
        /\ GoalAreasOfResult[1].id = "fallback"
        /\ GoalAreasOfResult[1].name = "General Development"
        /\ GoalAreasOfResult[1].evidence = "MEDIUM"
        /\ n_outcome.result.behavioral_patterns = <<>>
        /\ n_outcome.result.raw_model_output = <<"Parsing error: ", try_outcome.message>>
        /\ n_outcome.result.model_info.provider
               = (IF raw_response.provider = Absent THEN "unknown" ELSE raw_response.provider)
        /\ n_outcome.result.model_info.model = raw_response.model
        /\ n_outcome.result.model_info.latency_ms = raw_response.latency_ms

\* A parser raised on a content that is not a string and the fallback result
\* was returned.
C21_Witness ==
    /\ FallbackReturned
    /\ n_content_text.status = "returned"
    /\ try_outcome.exception = "AttributeError"

\* C22: _extract_content_text never throws past its boundary: for every
\* content (empty string, plain text, stringified dict, dict-like text that is
\* no valid literal, a literal of another shape) it returns a text: the
\* embedded text when the structural parse succeeds, the payload otherwise.
C22_ExtractionNeverRaises ==
    n_pc = "done" =>
        /\ n_content_text.status = "returned"
        /\ n_content_text.result.str
        /\ raw_response.content.kind \in {"plain", "dict", "literal_not_dict"} =>
               n_content_text.result.text = raw_response.content.text

\* C25: a result returned by normalize_response holds at most 3 behavioural
\* patterns in all, for every model family and every text, texts with
\* several pattern-titled sections included.
C25_AtMostThreePatterns ==
    NormalizerReturned => Len(n_outcome.result.behavioral_patterns) <= 3

\* C26: in every result returned by normalize_response, the fallback result
\* included, the interest distribution is derived one-to-one from the goal
\* areas: same length and order, entry i having the name of goal area i as
\* its category and the percentage of goal area i.
C26_InterestsFollowGoalAreas ==
    NormalizerReturned =>
        /\ Len(n_outcome.result.interest_distribution) = Len(GoalAreasOfResult)
        /\ \A i \in 1..Len(GoalAreasOfResult) :
               /\ n_outcome.result.interest_distribution[i].category
                      = GoalAreasOfResult[i].name
               /\ n_outcome.result.interest_distribution[i].percentage
                      = GoalAreasOfResult[i].percentage

\* The sections the parser of the family splits the content into.
SectionsOf(family, content) ==
    CASE family = "claude" -> split_by_headers(content)
      [] family = "nova" -> split_by_markdown_headers(content)
      [] family = "llama" -> split_by_numbered_sections(content)

\* Section s is a goal section whose title carries a percentage.
TitledGoalSection(family, sections, s) ==
    /\ Route(family, sections[s].title) = "goal"
    /\ TitlePercentage(sections[s].title) # NoPct

\* C27: for each of the parsers of the claude, nova and llama families, when
\* the title of a goal section carries a percentage such as 'Fitness Goals
\* (50%)', every goal area extracted from that section has the title's
\* percentage, whatever percentages the body of the section holds.
C27_TitlePercentageFirst ==
    (/\ NormalizerReturned
     /\ try_outcome.status = "returned"
     /\ raw_response.content.kind = "plain"
     /\ raw_response.model_family \in {"claude", "nova", "llama"}) =>
        \A s \in 1..Len(SectionsOf(raw_response.model_family, raw_response.content.text)) :
            TitledGoalSection(raw_response.model_family,
                              SectionsOf(raw_response.model_family, raw_response.content.text),
                              s) =>
                \A c \in 1..Len(GOAL_CATEGORIES) :
                    HasWord(SectionsOf(raw_response.model_family,
                                       raw_response.content.text)[s].body,
                            GOAL_CATEGORIES[c].key) =>
                        \E a \in 1..Len(GoalAreasOfResult) :
                            /\ GoalAreasOfResult[a].id = GOAL_CATEGORIES[c].key
                            /\ GoalAreasOfResult[a].percentage
                                   = TitlePercentage(
                                         SectionsOf(raw_response.model_family,
                                                    raw_response.content.text)[s].title)

\* --------------------------------------------- properties: order of sampling
\* The posts of the first min(available, cap) records of listed data type i,
\* in the order of the records.
FirstRecords(i) ==
    [k \in 1..Min(AvailableAt(i), sample_size_per_type) |->
        post_of_item(data_types[i], ItemOf(raw_data[data_types[i]], k)).result]

RECURSIVE GroupedFirstRecords(_)
GroupedFirstRecords(i) ==
    IF i = 0 THEN <<>> ELSE GroupedFirstRecords(i - 1) \o FirstRecords(i)

\* C23: the posts extracted are grouped by data type in the order of the
\* list of data types, and within a data type they are, in the same order, the
\* posts of the first min(available, cap) records of its list: no record is
\* skipped, reordered or removed as a duplicate.
C23_FirstNInOrder == Extracted => all_posts = GroupedFirstRecords(Len(data_types))

\* Two data types have been sampled, the first one cut to the cap: the posts
\* of the second follow the cap-th post of the first.
C23_Witness ==
    /\ Extracted
    /\ Len(data_types) = 2
    /\ data_types[1] # data_types[2]
    /\ AvailableAt(1) > sample_size_per_type
    /\ AvailableAt(2) > 0
    /\ Len(all_posts) > sample_size_per_type
    /\ all_posts[sample_size_per_type].saved_at = SavedAt(sample_size_per_type)
    /\ all_posts[sample_size_per_type + 1].interaction_type = InteractionType(data_types[2])
    /\ all_posts[sample_size_per_type + 1].saved_at = SavedAt(1)


\* ------------------------------------------------- properties: the prompt
PromptBuilt == b_pc = "done"

PostLines == SelectSeq(b_prompt.sample_content, LAMBDA line : line.kind = "post")

MoreLines == SelectSeq(b_prompt.sample_content, LAMBDA line : line.kind = "more")

\* C24: for every list of posts, the empty one included, the prompt has
\* min(len(posts), 15) post lines, those of the first posts in order; it has
\* the line '... and N more posts' exactly when len(posts) > 15, with
\* N = len(posts) - 15; each caption is cut to its first 100 characters and
\* followed by '...' exactly when it was longer; at most 3 tags are shown per
\* post; the counts of the breakdown by interaction type add up to the total
\* of items analysed, len(posts).
C24_PromptBounded ==
    PromptBuilt =>
        /\ Len(PostLines) = Min(Len(b_posts), 15)
        /\ \A k \in 1..Len(PostLines) :
               /\ b_prompt.sample_content[k] = PostLines[k]
               /\ PostLines[k].author = b_posts[k].author
               /\ Len(PostLines[k].caption) = Min(Len(b_posts[k].caption), 100)
               /\ \A j \in 1..Len(PostLines[k].caption) :
                      PostLines[k].caption[j] = b_posts[k].caption[j]
               /\ (PostLines[k].ellipsis = "...") <=> (Len(b_posts[k].caption) > 100)
               /\ PostLines[k].ellipsis \in {"", "..."}
               /\ Len(PostLines[k].tags) <= 3
        /\ Len(MoreLines) = (IF Len(b_posts) > 15 THEN 1 ELSE 0)
        /\ Len(b_posts) > 15 => MoreLines[1].n = Len(b_posts) - 15
        /\ b_prompt.total_items = Len(b_posts)
        /\ sum_values(b_prompt.type_summary) = b_prompt.total_items

\* A prompt of more than 15 posts of several interaction types, with a
\* caption cut and hashtags left out, has been built.
C24_Witness ==
    /\ PromptBuilt
    /\ Len(b_posts) > 15
    /\ Len(MoreLines) = 1
    /\ Len(b_prompt.type_summary) > 1
    /\ \E k \in 1..15 :
           /\ Len(b_posts[k].caption) > 100
           /\ PostLines[k].ellipsis = "..."
    /\ \E k \in 1..15 :
           /\ Len(b_posts[k].hashtags) > 3
           /\ Len(PostLines[k].tags) = 3

\* ------------------------------------------- properties: terminal status
\* The handler returned or raised.
HandlerFinished == h_pc \in {"returned", "raised"}

\* save_analysis_result gave True: the handler answered 200.
AnalysisSaved ==
    /\ h_pc = "returned"
    /\ h_outcome.status = "returned"
    /\ h_outcome.result.statusCode = 200

\* C28: once the record is 'processing' and the handler has finished with the
\* event, by returning or by raising, the record is 'completed' if the
\* analysis was saved and 'failed' otherwise; it is never left 'processing',
\* whichever of the S3 read, the AI call, the DynamoDB update or the S3 write
\* failed.  (No step sets a record to 'uploaded' or 'processing': a record
\* found 'uploaded' at the end is one the orchestrator had not marked.)
C28_TerminalStatus ==
    (HandlerFinished /\ content_status # "uploaded") =>
        content_status = (IF AnalysisSaved THEN "completed" ELSE "failed")

\* ------------------------------------------------ properties: reprocessing
\* The table holds an analysis of the content for the provider and model of
\* the request, stored by an earlier request.
StoredFor(table, request) ==
    \E item \in table :
        /\ item.contentId = request.content_id
        /\ item.modelProvider = request.model_provider
        /\ item.modelName = request.model_name

\* C29: a reprocess request with force false for a (contentId, modelProvider,
\* modelName) whose analysis an earlier request stored is answered with that
\* analysis and cached = true, and creates no job and no analysis item,
\* however much time passed between the two requests.
C29_ReprocessIdempotent ==
    [][(r_calls' = r_calls + 1 /\ ~r_request'.force /\ StoredFor(analysis_table, r_request'))
           => /\ r_response'.statusCode = 200
              /\ r_response'.cached
              /\ jobs_table' = jobs_table
              /\ analysis_table' = analysis_table]_vars

\* ------------------------------------------- properties: content analysis
StoredCount(i) ==
    Available(content_data.exportInfo.dataTypes[i],
              content_data.sections[content_data.exportInfo.dataTypes[i]])

ListedTypesPresent ==
    \A i \in 1..Len(content_data.exportInfo.dataTypes) :
        content_data.sections[content_data.exportInfo.dataTypes[i]].shape # "absent"

\* C30: for a consolidated instagram_export whose listed data types are all
\* in the stored object, the parser called by content_analysis.handler gets
\* their items: its total_items_available is the sum of the item counts of
\* the stored object and the number of posts extracted is the sum over the
\* types of min(count, cap).
C30_ParserReceivesItems ==
    (a_pc \in {"analysis", "returned"} /\ p_pc = "done" /\ ListedTypesPresent) =>
        /\ p_outcome.result.metadata.total_items_available
               = SumTo([i \in 1..Len(content_data.exportInfo.dataTypes) |-> StoredCount(i)],
                       Len(content_data.exportInfo.dataTypes))
        /\ Len(all_posts)
               = SumTo([i \in 1..Len(content_data.exportInfo.dataTypes) |->
                           Min(StoredCount(i), sample_size_per_type)],
                       Len(content_data.exportInfo.dataTypes))

====
